---- MODULE Spec2Model ----
(***************************************************************************)
(* Model of the MXW01 thermal printer driver: the client facade            *)
(* (ThermalPrinterClient), the device controller (MXW01Printer), the       *)
(* printer state tracker (PrinterStateManager) and the notification codec. *)
(*                                                                         *)
(* One action is one JavaScript task: the resolution of the promise a call *)
(* is suspended on (a transport write, a delay, an adapter operation, a    *)
(* waiter), a timer, or a notification of the transport, together with     *)
(* the synchronous code the call runs until its next suspension.           *)
(***************************************************************************)
EXTENDS Integers, Sequences, FiniteSets, TLC

\* ------------------------------------------------------------------ bounds
MaxCalls == 2        \* facade calls that may be in progress at once
MaxOps   == 3        \* facade calls the host makes in one behaviour
MaxConns == 2        \* connections the adapter hands out in one behaviour
MaxLen   == 3        \* length of the byte sequences the codec is tried on
MaxSide  == 6        \* width and height of the images the ditherers are tried on

\* ------------------------------------------------- protocol (protocol.ts)
GetStatus     == 161   \* 0xA1
SetIntensity  == 162   \* 0xA2
PrintRequest  == 169   \* 0xA9
FlushData     == 173   \* 0xAD
PrintComplete == 170   \* 0xAA
HEADER_BYTE_1 == 34    \* 0x22
HEADER_BYTE_2 == 33    \* 0x21
TERMINATOR    == 255   \* 0xFF

PRINTER_WIDTH       == 384
PRINTER_WIDTH_BYTES == PRINTER_WIDTH \div 8
MIN_DATA_BYTES      == 90 * PRINTER_WIDTH_BYTES

Undefined == -1        \* an index past the end of a Uint8Array reads undefined

\* message[k] of a Uint8Array, k counted from 0
At(message, k) == IF k < Len(message) THEN message[k + 1] ELSE Undefined

\* x | 0 of JavaScript for a byte or undefined
OrZero(x) == IF x = Undefined THEN 0 ELSE x

\* message.slice(from, to)
Slice(message, from, to) ==
  LET hi == IF to < Len(message) THEN to ELSE Len(message)
  IN  IF from >= hi THEN << >> ELSE SubSeq(message, from + 1, hi)

None == << >>
Some(x) == << x >>

\* parseNotification that checks the first header byte only
parseNotificationFirstByte(message) ==
  IF At(message, 0) # HEADER_BYTE_1
  THEN None
  ELSE LET len == OrZero(At(message, 4)) + 256 * OrZero(At(message, 5))
       IN  Some([cmdId |-> At(message, 2), payload |-> Slice(message, 6, 6 + len)])

\* parseNotification that reads the low length byte only
parseNotificationLowLength(message) ==
  IF At(message, 0) # HEADER_BYTE_1 \/ At(message, 1) # HEADER_BYTE_2
  THEN None
  ELSE LET len == OrZero(At(message, 4))
       IN  Some([cmdId |-> At(message, 2), payload |-> Slice(message, 6, 6 + len)])

\* parseNotification: null (None) unless the two header bytes match
parseNotification(message) ==
  IF At(message, 0) # HEADER_BYTE_1 \/ At(message, 1) # HEADER_BYTE_2
  THEN None
  ELSE LET len == OrZero(At(message, 4)) + 256 * OrZero(At(message, 5))
       IN  Some([cmdId |-> At(message, 2), payload |-> Slice(message, 6, 6 + len)])

\* a ^ b on bytes
RECURSIVE Xor(_, _)
Xor(a, b) ==
  IF a = 0 THEN b ELSE IF b = 0 THEN a
  ELSE ((a + b) % 2) + 2 * Xor(a \div 2, b \div 2)

\* one byte through the checksum register, bit by bit from the high end
RECURSIVE CrcBits(_, _)
CrcBits(crc, bits) ==
  IF bits = 0 THEN crc
  ELSE CrcBits(IF crc >= 128 THEN Xor((2 * crc) % 256, 7) ELSE (2 * crc) % 256, bits - 1)

CrcTable == [b \in 0 .. 255 |-> CrcBits(b, 8)]

\* the checksum register after the bytes lo..hi of data, started from crc
RECURSIVE CrcRange(_, _, _, _)
CrcRange(data, lo, hi, crc) ==
  IF lo > hi THEN crc
  ELSE IF lo = hi THEN CrcTable[Xor(crc, data[lo])]
  ELSE LET mid == (lo + hi) \div 2
           left == CrcRange(data, lo, mid, crc)
       IN  IF left \in 0 .. 255 THEN CrcRange(data, mid + 1, hi, left) ELSE Undefined

\* crc8 of utils/helpers: an 8-bit checksum of the bytes given
crc8(data) == CrcRange(data, 1, Len(data), 0)

\* makeCommand with the checksum taken over header and payload
makeCommandCrcAll(command, payload) ==
  LET len == Len(payload)
      header == << HEADER_BYTE_1, HEADER_BYTE_2, command % 256, 0,
                   len % 256, (len \div 256) % 256 >>
      cmdWithPayload == header \o payload
  IN  cmdWithPayload \o << crc8(cmdWithPayload), TERMINATOR >>

\* makeCommand: header, payload, crc8 of the payload, terminator
makeCommand(command, payload) ==
  LET len == Len(payload)
      header == << HEADER_BYTE_1, HEADER_BYTE_2, command % 256, 0,
                   len % 256, (len \div 256) % 256 >>
      cmdWithPayload == header \o payload
      crcValue == crc8(payload)
  IN  cmdWithPayload \o << crcValue, TERMINATOR >>

\* (statusByte & mask) !== 0 for a one-bit mask
BitSet(statusByte, mask) == (statusByte \div mask) % 2 = 1

\* parsePrinterState that takes the byte before the status byte
parsePrinterStateByte5(payload) ==
  IF Len(payload) < 7
  THEN None
  ELSE LET statusByte == payload[6]
       IN  Some([printing     |-> BitSet(statusByte, 1),
                 paper_jam    |-> BitSet(statusByte, 2),
                 out_of_paper |-> BitSet(statusByte, 4),
                 cover_open   |-> BitSet(statusByte, 8),
                 battery_low  |-> BitSet(statusByte, 16),
                 overheat     |-> BitSet(statusByte, 32)])

\* parsePrinterState that decodes a short payload with the missing byte read as 0
parsePrinterStateAnyLength(payload) ==
  LET statusByte == OrZero(At(payload, 6))
  IN  Some([printing     |-> BitSet(statusByte, 1),
            paper_jam    |-> BitSet(statusByte, 2),
            out_of_paper |-> BitSet(statusByte, 4),
            cover_open   |-> BitSet(statusByte, 8),
            battery_low  |-> BitSet(statusByte, 16),
            overheat     |-> BitSet(statusByte, 32)])

\* parsePrinterState: null for a payload shorter than 7 bytes
parsePrinterState(payload) ==
  IF Len(payload) < 7
  THEN None
  ELSE LET statusByte == payload[7]
       IN  Some([printing     |-> BitSet(statusByte, 1),
                 paper_jam    |-> BitSet(statusByte, 2),
                 out_of_paper |-> BitSet(statusByte, 4),
                 cover_open   |-> BitSet(statusByte, 8),
                 battery_low  |-> BitSet(statusByte, 16),
                 overheat     |-> BitSet(statusByte, 32)])

createDefaultState ==
  [printing |-> FALSE, paper_jam |-> FALSE, out_of_paper |-> FALSE,
   cover_open |-> FALSE, battery_low |-> FALSE, overheat |-> FALSE]

\* ---------------------------------------------- what the device may send
\* A notification frame as the device builds it: header, id, length, payload
\* and two trailer bytes that parseNotification never reads.
DeviceFrame(cmdId, payload) ==
  << HEADER_BYTE_1, HEADER_BYTE_2, cmdId, 0, Len(payload) % 256, Len(payload) \div 256 >>
    \o payload \o << 0, TERMINATOR >>

StatusReady    == << 0, 0, 0, 0, 0, 0, 0 >>                       \* no flag set
StatusNoPaper  == << 0, 0, 0, 0, 0, 0, 4, 0, 0, 0, 0, 0, 0, 0 >>  \* out_of_paper, byte 12 clear
StatusError    == << 0, 0, 0, 0, 0, 0, 0, 0, 0, 0, 0, 0, 1, 7 >>  \* byte 12 set, code 7
StatusShort    == << 0, 0, 0 >>                                   \* too short to decode
AckOk          == << 0 >>
AckNo          == << 1 >>
AckEmpty       == << >>

Garbled == << 0, 0, GetStatus, 0, 0, 0 >>    \* fails the header check

\* what the device may answer when it owes a notification with this id: one
\* of the sample payloads; on a noisy link also a status too short to decode
\* or a frame that arrives garbled
Answers(cmdId, noise) ==
  { DeviceFrame(cmdId, payload) : payload \in
      IF cmdId = GetStatus THEN { StatusReady, StatusNoPaper, StatusError }
      ELSE IF cmdId = PrintRequest THEN { AckOk, AckNo, AckEmpty }
      ELSE { << 0 >> } }
  \cup (IF noise THEN { Garbled } ELSE { })
  \cup (IF noise /\ cmdId = GetStatus THEN { DeviceFrame(GetStatus, StatusShort) } ELSE { })

Frames ==
  Answers(GetStatus, TRUE) \cup Answers(PrintRequest, TRUE) \cup Answers(PrintComplete, TRUE)

\* ------------------------------------------------------------------ state
VARIABLES
  isConnected,     \* ClientState._isConnected
  isPrinting,      \* ClientState._isPrinting
  printerState,    \* ClientState._printerState: None or Some(flags)
  statusMessage,   \* ClientState._statusMessage
  ditherMethod,    \* ClientState._ditherMethod
  printIntensity,  \* ClientState._printIntensity
  printer,         \* ThermalPrinterClient.printer: 0 is null, else the instance
  connection,      \* ThermalPrinterClient.connection: 0 is null
  device,          \* ThermalPrinterClient.device: 0 is null
  conns,           \* the connections handed out by the adapter
  mgrs,            \* the PrinterStateManager of each MXW01Printer instance
  calls,           \* the facade calls in progress and the one that just settled
  nconn,           \* number of connections handed out so far
  nops,            \* number of facade calls made so far
  last,            \* history: what the calls settled so far amount to
  scope,           \* what a behaviour covers: concurrent calls, calls in all,
                   \* link noise, the status text (which is never read back)
  input,           \* the input of a pure function of the codec, None for none
  output           \* its result, None before it is computed

vars == << isConnected, isPrinting, printerState, statusMessage, ditherMethod,
           printIntensity, printer, connection, device, conns, mgrs, calls,
           nconn, nops, last, scope, input, output >>

Calls == 1 .. MaxCalls
Conns == 1 .. MaxConns
WaitCmds == { GetStatus, PrintRequest }    \* ids waitForNotification is called with

\* new PrinterStateManager()
NewManager ==
  [state |-> createDefaultState, printComplete |-> FALSE,
   pendingResolvers |-> [c \in WaitCmds |-> 0]]

NewConn == [started |-> FALSE, listener |-> FALSE, released |-> FALSE]

\* A call slot. log, out and alone are history: what the call did so far, the
\* reply id the device still owes it, whether it ran with no other call.
IdleCall ==
  [op |-> "idle", pc |-> "idle", pr |-> 0, cn |-> 0, out |-> 0, alone |-> TRUE,
   res |-> "none", err |-> "", log |-> << >>]

Entry(k, cmd, data, msg) == [k |-> k, cmd |-> cmd, data |-> data, msg |-> msg]

\* The program state as one value, so that the synchronous code between two
\* suspensions composes as functions State -> State.
Cur ==
  [isConnected |-> isConnected, isPrinting |-> isPrinting,
   printerState |-> printerState, statusMessage |-> statusMessage,
   ditherMethod |-> ditherMethod, printIntensity |-> printIntensity,
   printer |-> printer, connection |-> connection, device |-> device,
   conns |-> conns, mgrs |-> mgrs, calls |-> calls, nconn |-> nconn,
   scope |-> scope]

\* A PrinterStateManager that neither the client nor a call in progress
\* refers to is garbage: it is put back to its initial value.
Collect(S) ==
  [S EXCEPT !.mgrs = [p \in Conns |->
     IF p = S.printer \/ \E i \in Calls : S.calls[i].pr = p
     THEN S.mgrs[p] ELSE NewManager]]

Commit(S) ==
  /\ isConnected' = S.isConnected
  /\ isPrinting' = S.isPrinting
  /\ printerState' = S.printerState
  /\ statusMessage' = S.statusMessage
  /\ ditherMethod' = S.ditherMethod
  /\ printIntensity' = S.printIntensity
  /\ printer' = S.printer
  /\ connection' = S.connection
  /\ device' = S.device
  /\ conns' = S.conns
  /\ mgrs' = Collect(S).mgrs
  /\ calls' = S.calls
  /\ nconn' = S.nconn
  /\ UNCHANGED << last, scope, input, output >>

\* a step of a call in progress, a timer or the transport: no new call
Step(S) == Commit(S) /\ UNCHANGED nops

Running(c) == c.pc \notin { "idle", "done" }

\* ------------------------------------------------ ClientState and events
setConnected(S, value) == [S EXCEPT !.isConnected = value]

setPrinting(S, value) == [S EXCEPT !.isPrinting = value]

Log(S, i, e) == [S EXCEPT !.calls[i].log = Append(@, e)]

\* eventEmitter.emit from inside call i
emit(S, i, type, msg) == Log(S, i, Entry(type, 0, << >>, msg))

\* updateStatus(message)
updateStatus(S, message) == IF S.scope.text THEN [S EXCEPT !.statusMessage = message] ELSE S

\* ClientState.setDitherMethod
setDitherMethod(S, method) == [S EXCEPT !.ditherMethod = method]

\* ClientState.setPrintIntensity: throws outside 0..255 and stores nothing
setPrintIntensity(S, intensity) ==
  IF intensity < 0 \/ intensity > 255 THEN S ELSE [S EXCEPT !.printIntensity = intensity]

\* reset that leaves the printing flag as it is
resetKeepsPrinting(S) ==
  [updateStatus(S, "Ready to connect printer")
     EXCEPT !.isConnected = FALSE, !.printerState = None]

\* ClientState.reset: dither method and intensity are not touched
reset(S) ==
  [updateStatus(S, "Ready to connect printer")
     EXCEPT !.isConnected = FALSE, !.isPrinting = FALSE, !.printerState = None]

\* updateStatus(message, newPrinterState): also emits stateChange
updateStatusState(S, message, newPrinterState) ==
  [updateStatus(S, message) EXCEPT !.printerState = Some(newPrinterState)]

\* the promise of call i settles
Settle(S, i, res, err) ==
  [S EXCEPT !.calls[i].pc = "done", !.calls[i].res = res, !.calls[i].err = err,
            !.calls[i].out = 0, !.calls[i].pr = 0, !.calls[i].cn = 0,
            !.calls[i].log = Append(@, Entry(IF res = "rejected" THEN "reject" ELSE "resolve",
                                             0, << >>, err))]

\* a facade method is called in slot i
Begin(S, i, op) ==
  [S EXCEPT !.calls = [j \in Calls |->
      IF j = i
      THEN [IdleCall EXCEPT !.op = op, !.pc = "start",
                            !.alone = \A k \in Calls \ {i} : ~Running(S.calls[k])]
      ELSE IF Running(S.calls[j]) THEN [S.calls[j] EXCEPT !.alone = FALSE]
      ELSE S.calls[j]]]

\* ------------------------------------------- MXW01Printer (the controller)
\* the notification id the device answers a command with, 0 for none
Expect(cmd) ==
  IF cmd \in WaitCmds THEN cmd ELSE IF cmd = FlushData THEN PrintComplete ELSE 0

\* this.controlWrite(makeCommand(cmd, ...)) of instance p: the frame is handed
\* to the control characteristic and the call waits for the write's promise
controlWrite(S, i, p, cmd, pc) ==
  [S EXCEPT !.calls[i].pc = pc, !.calls[i].pr = p, !.calls[i].out = Expect(cmd),
            !.calls[i].log = Append(@, Entry("ctl", cmd, << >>, ""))]

\* this.dataWrite(chunk) of instance p; the chunks of a job share one log entry
dataWrite(S, i, p) ==
  [S EXCEPT !.calls[i].pc = "dataWrite", !.calls[i].pr = p,
            !.calls[i].log = IF \E n \in 1 .. Len(@) : @[n].k = "data" THEN @
                             ELSE Append(@, Entry("data", 0, << >>, ""))]

\* stateManager.waitForNotification(cmd, 5000): registers the resolver of
\* call i, replacing whatever was registered for cmd, and starts its timer
waitForNotification(S, i, cmd, pc) ==
  [S EXCEPT !.mgrs[S.calls[i].pr].pendingResolvers[cmd] = i, !.calls[i].pc = pc]

TimeoutMessage(cmd) ==
  IF cmd = GetStatus THEN "Timeout waiting for notification 0xa1"
  ELSE "Timeout waiting for notification 0xa9"

PrintTimeoutMessage == "Print timeout: Did not receive completion notification"
RejectedMessage == "Print request rejected"
NotConnectedMessage == "Printer not connected"
WriteError == "GATT operation failed"
PrepareError == "Row length must be 384"
NullError == "Cannot read properties of null"

\* ------------------------------------------------ ThermalPrinterClient
\* getStatus() returned ret to the code that awaited it: the call itself, or
\* connect(), reconnect() and print(), whose last step it is. For print()
\* this is where the finally block runs.
afterGetStatus(S, i, ret) ==
  LET op == S.calls[i].op
  IN  IF op = "getStatus" THEN Settle(S, i, ret, "")
      ELSE IF op = "reconnect" THEN Settle(S, i, "true", "")
      ELSE IF op = "print" THEN Settle(setPrinting(S, FALSE), i, "void", "")
      ELSE Settle(S, i, "void", "")

\* the catch block of getStatus(): status text, error event, null
getStatusCatch(S, i, err) ==
  afterGetStatus(emit(updateStatus(S, "Error: " \o err), i, "error", err), i, "null")

\* getStatus() up to its first suspension
getStatus(S, i) ==
  IF S.printer = 0 \/ ~S.isConnected
  THEN afterGetStatus(updateStatus(S, NotConnectedMessage), i, "null")
  ELSE controlWrite(S, i, S.printer, GetStatus, "statusWrite")

\* getStatus() after requestStatus() resolved: reads this.printer.state
getStatusResolved(S, i) ==
  IF S.printer = 0
  THEN getStatusCatch(S, i, NullError)
  ELSE afterGetStatus(
         updateStatusState(S, "Status updated", S.mgrs[S.printer].state), i, "state")

\* printCatch with the printing flag left set
printCatchKeepsFlag(S, i, err) ==
  Settle(emit(updateStatus(S, "Error: " \o err), i, "error", err), i, "rejected", err)

\* printCatch with no error event
printCatchSilent(S, i, err) ==
  Settle(setPrinting(updateStatus(S, "Error: " \o err), FALSE), i, "rejected", err)

\* the catch and finally blocks of print(): status text, error event, the
\* printing flag cleared, the error rethrown
printCatch(S, i, err) ==
  Settle(setPrinting(emit(updateStatus(S, "Error: " \o err), i, "error", err), FALSE),
         i, "rejected", err)

\* print() that sets the printing flag and the status text before the
\* connected check
printFlagFirst(S, i, prepared) ==
  LET S1 == updateStatus(setPrinting(S, TRUE), "Preparing to print...")
  IN  IF S.printer = 0 \/ ~S.isConnected
      THEN Settle(S1, i, "rejected", NotConnectedMessage)
      ELSE IF ~prepared
           THEN printCatch(S1, i, PrepareError)
           ELSE controlWrite(updateStatus(S1, "Configuring printer..."),
                             i, S1.printer, SetIntensity, "intensityWrite")

\* print() up to its first suspension; prepared is whether PrintJob.prepare
\* returned a buffer (it throws when a row is wider than the print head)
print(S, i, prepared) ==
  IF S.printer = 0 \/ ~S.isConnected
  THEN Settle(S, i, "rejected", NotConnectedMessage)
  ELSE LET S1 == updateStatus(setPrinting(S, TRUE), "Preparing to print...")
       IN  IF ~prepared
           THEN printCatch(S1, i, PrepareError)
           ELSE controlWrite(updateStatus(S1, "Configuring printer..."),
                             i, S1.printer, SetIntensity, "intensityWrite")

\* print() after setIntensity() returned: this.printer.requestStatus()
printAfterIntensity(S, i) ==
  IF S.printer = 0
  THEN printCatch(S, i, NullError)
  ELSE controlWrite(S, i, S.printer, GetStatus, "preWrite")

\* the precheck of print(): status[12] decides, not the decoded flags
statusRefuses(status) == Len(status) >= 13 /\ status[13] # 0

PrinterErrorMessage(status) ==
  "Printer error: " \o (IF Len(status) >= 14 THEN ToString(status[14]) ELSE "undefined")

\* print() after requestStatus() resolved with status
printAfterStatus(S, i, status) ==
  IF statusRefuses(status)
  THEN printCatch(S, i, PrinterErrorMessage(status))
  ELSE LET S1 == updateStatus(S, "Sending data...")
       IN  IF S1.printer = 0
           THEN printCatch(S1, i, NullError)
           ELSE controlWrite(S1, i, S1.printer, PrintRequest, "reqWrite")

\* ackRefuses that lets an empty acknowledgement pass
ackRefusesNonEmpty(ack) == Len(ack) > 0 /\ ack[1] # 0

\* !ack || ack[0] !== 0
ackRefuses(ack) == Len(ack) = 0 \/ ack[1] # 0

\* printAfterAck that goes on to flushData() with no chunk sent
printAfterAckNoData(S, i, ack) ==
  IF ackRefuses(ack)
  THEN printCatch(S, i, RejectedMessage)
  ELSE IF S.printer = 0
       THEN printCatch(S, i, NullError)
       ELSE controlWrite(S, i, S.printer, FlushData, "flushWrite")

\* print() after printRequest() resolved with ack: sendDataChunks starts.
\* The buffer holds at least MIN_DATA_BYTES bytes, so there is a first chunk.
printAfterAck(S, i, ack) ==
  IF ackRefuses(ack)
  THEN printCatch(S, i, RejectedMessage)
  ELSE IF S.printer = 0
       THEN printCatch(S, i, NullError)
       ELSE dataWrite(S, i, S.printer)

\* sendDataChunks after delay(15): the next chunk while pos < data.length,
\* else print() goes on with this.printer.flushData()
printAfterChunk(S, i, more) ==
  IF more
  THEN dataWrite(S, i, S.calls[i].pr)
  ELSE IF S.printer = 0
       THEN printCatch(S, i, NullError)
       ELSE controlWrite(S, i, S.printer, FlushData, "flushWrite")

\* print() after flushData() returned: waitForPrintComplete() clears the
\* completion flag and starts to poll
printAfterFlush(S, i) ==
  LET S1 == updateStatus(S, "Printing...")
  IN  IF S1.printer = 0
      THEN printCatch(S1, i, NullError)
      ELSE [Log(S1, i, Entry("wait", 0, << >>, ""))
              EXCEPT !.mgrs[S1.printer].printComplete = FALSE,
                     !.calls[i].pc = "pollDelay", !.calls[i].pr = S1.printer]

\* waitForPrintComplete after delay(100); elapsed is whether 20 s have passed
printAfterPoll(S, i, elapsed) ==
  LET complete == S.mgrs[S.calls[i].pr].printComplete
  IN  IF ~complete /\ ~elapsed THEN S
      ELSE IF ~complete THEN printCatch(S, i, PrintTimeoutMessage)
      ELSE getStatus(updateStatus(Log([S EXCEPT !.calls[i].out = 0], i,
                                      Entry("complete", 0, << >>, "")),
                                  "Print completed"), i)

\* connectCatch with no error event
connectCatchSilent(S, i, err) ==
  IF S.calls[i].op = "reconnect"
  THEN Settle(S, i, "false", err)
  ELSE Settle(updateStatus(S, "Error: " \o err), i, "rejected", err)

\* the catch block of connect() (status text, error event, rethrow) and of
\* reconnect() (false)
connectCatch(S, i, err) ==
  IF S.calls[i].op = "reconnect"
  THEN Settle(S, i, "false", err)
  ELSE Settle(emit(updateStatus(S, "Error: " \o err), i, "error", err), i, "rejected", err)

\* this.adapter.connect(device) is called
adapterConnect(S, i) ==
  [Log(S, i, Entry("adapterConnect", 0, << >>, "")) EXCEPT !.calls[i].pc = "adapterConnect"]

\* connect() up to its first suspension
connect(S, i) ==
  [Log(updateStatus(S, "Connecting to printer..."), i, Entry("requestDevice", 0, << >>, ""))
     EXCEPT !.calls[i].pc = "requestDevice"]

\* connect() after adapter.requestDevice() settled
connectAfterRequestDevice(S, i, ok) ==
  IF ~ok
  THEN connectCatch(S, i, "Failed to request Bluetooth device")
  ELSE adapterConnect([S EXCEPT !.device = 1], i)

\* reconnect() up to its first suspension; lookup is whether the adapter has
\* a getPairedDevice method
reconnect(S, i, lookup) ==
  IF ~lookup
  THEN Settle(S, i, "false", "")
  ELSE [updateStatus(S, "Checking for paired devices...") EXCEPT !.calls[i].pc = "getPairedDevice"]

\* reconnect() after adapter.getPairedDevice() settled: a device, null, or a throw
reconnectAfterPaired(S, i, found) ==
  IF found = "throw" THEN connectCatch(S, i, "Error getting paired device")
  ELSE IF found = "null" THEN Settle(S, i, "false", "")
  ELSE adapterConnect([updateStatus(S, "Connecting to paired device...") EXCEPT !.device = 1], i)

\* after adapter.connect() settled: the connection and a new MXW01Printer are
\* stored and setupNotifications() calls startNotifications()
connectAfterConnect(S, i, ok) ==
  IF ~ok
  THEN connectCatch(S, i, "Failed to connect to device")
  ELSE LET c == S.nconn + 1
       IN  [Log(S, i, Entry("startNotifications", 0, << >>, ""))
              EXCEPT !.nconn = c, !.connection = c, !.printer = c,
                     !.calls[i].cn = c, !.calls[i].pc = "startNotifications"]

\* after startNotifications() settled: the listener is added to the notify
\* characteristic of this.connection, the client becomes connected, the
\* connected event is emitted when this.device is set, getStatus() is called
connectAfterSubscribe(S, i, ok) ==
  IF ~ok THEN connectCatch(S, i, "Failed to start notifications")
  ELSE LET S1 == [S EXCEPT !.conns[S.calls[i].cn].started = TRUE]
       IN  IF S1.connection = 0
           THEN connectCatch(S1, i, NullError)
           ELSE LET S2 == [S1 EXCEPT !.conns[S1.connection].listener = TRUE]
                    S3 == Log(setConnected(S2, TRUE), i, Entry("setConnected", 0, << >>, ""))
                    S4 == updateStatus(S3, IF S.calls[i].op = "reconnect"
                                           THEN "Reconnected to printer" ELSE "Printer connected")
                    S5 == IF S4.device # 0 THEN emit(S4, i, "connected", "") ELSE S4
                IN  getStatus(S5, i)

\* the end of disconnect(): references cleared, state reset, event emitted
disconnectFinish(S, i) ==
  LET S1 == reset([S EXCEPT !.printer = 0, !.connection = 0, !.device = 0])
  IN  Settle(emit(updateStatus(S1, "Printer disconnected"), i, "disconnected", ""), i, "void", "")

\* this.connection.disconnect() is called
release(S, i) ==
  [Log(S, i, Entry("release", 0, << >>, ""))
     EXCEPT !.calls[i].cn = S.connection, !.calls[i].pc = "release"]

\* disconnect() up to its first suspension
disconnect(S, i) ==
  IF S.connection # 0
  THEN [Log(S, i, Entry("stopNotifications", 0, << >>, ""))
          EXCEPT !.calls[i].cn = S.connection, !.calls[i].pc = "stopNotifications"]
  ELSE disconnectFinish(S, i)

\* disconnectAfterStop that gives up the release when the unsubscription threw
disconnectAfterStopGivesUp(S, i, ok) ==
  IF ok
  THEN LET S1 == [S EXCEPT !.conns[S.calls[i].cn].started = FALSE]
       IN  IF S1.connection # 0 THEN release(S1, i) ELSE disconnectFinish(S1, i)
  ELSE disconnectFinish(S, i)

\* disconnect() after stopNotifications() settled (a throw is only logged)
disconnectAfterStop(S, i, ok) ==
  LET S1 == IF ok THEN [S EXCEPT !.conns[S.calls[i].cn].started = FALSE] ELSE S
  IN  IF S1.connection # 0 THEN release(S1, i) ELSE disconnectFinish(S1, i)

\* disconnect() after connection.disconnect() settled (a throw is only logged)
disconnectAfterRelease(S, i, ok) ==
  disconnectFinish(IF ok THEN [S EXCEPT !.conns[S.calls[i].cn].released = TRUE] ELSE S, i)

\* ------------------------------------------------- PrinterStateManager
\* processNotification that leaves the resolver in the table
processNotificationKeepsResolver(m, cmdId, payload) ==
  LET m1 == IF cmdId = PrintComplete THEN [m EXCEPT !.printComplete = TRUE] ELSE m
      newState == parsePrinterState(payload)
  IN  IF cmdId = GetStatus /\ newState # None
      THEN [m1 EXCEPT !.state = newState[1]] ELSE m1

\* processNotification on the manager m: completion flag, status decode; the
\* resolver is handled by the caller (resolverOf, resume)
processNotification(m, cmdId, payload) ==
  LET m1 == IF cmdId = PrintComplete THEN [m EXCEPT !.printComplete = TRUE] ELSE m
      newState == parsePrinterState(payload)
      m2 == IF cmdId = GetStatus /\ newState # None
            THEN [m1 EXCEPT !.state = newState[1]] ELSE m1
  IN  IF cmdId \in WaitCmds THEN [m2 EXCEPT !.pendingResolvers[cmdId] = 0] ELSE m2

\* MXW01Printer.notify on the manager m: a frame that does not parse is ignored
notify(m, message) ==
  LET parsed == parseNotification(message)
  IN  IF parsed = None THEN m
      ELSE processNotification(m, parsed[1].cmdId, parsed[1].payload)

\* the call whose resolver the notifier finds for message, 0 for none
resolverOf(S, message) ==
  LET parsed == parseNotification(message)
  IN  IF S.printer = 0 \/ parsed = None THEN 0
      ELSE IF parsed[1].cmdId \in WaitCmds
           THEN S.mgrs[S.printer].pendingResolvers[parsed[1].cmdId]
           ELSE 0

\* the code that awaited waitForNotification goes on with the payload
resume(S, j, payload) ==
  LET pc == S.calls[j].pc
      cmd == IF pc = "ackWait" THEN PrintRequest ELSE GetStatus
      S1 == Log(S, j, Entry("reply", cmd, payload, ""))
  IN  IF pc = "preWait" THEN printAfterStatus(S1, j, payload)
      ELSE IF pc = "ackWait" THEN printAfterAck(S1, j, payload)
      ELSE getStatusResolved(S1, j)

\* the listener setupNotifications registers: MXW01Printer.notify on the
\* current printer, then updateStatus with a copy of its state, whether or
\* not the frame was parsed; the resolved call goes on after the listener
notifier(S, message) ==
  IF S.printer = 0 THEN S
  ELSE LET parsed == parseNotification(message)
           j == resolverOf(S, message)
           S1 == [S EXCEPT !.mgrs[S.printer] = notify(@, message)]
           S2 == updateStatusState(S1, "Printer state updated", S1.mgrs[S1.printer].state)
       IN  IF j # 0 THEN resume(S2, j, parsed[1].payload) ELSE S2

\* whether print() goes on after this answer to the command cmdId
Positive(cmdId, payload) ==
  IF cmdId = GetStatus THEN ~statusRefuses(payload)
  ELSE IF cmdId = PrintRequest THEN ~ackRefuses(payload)
  ELSE TRUE

\* history: the device has answered the command of call k with message; an
\* answer that does not resolve the waiter of call k is logged as "ans" with
\* whether it was positive, one that arrives garbled as "garbled"
answered(S, message, k) ==
  LET parsed == parseNotification(message)
      j == resolverOf(S, message)
      S1 == [S EXCEPT !.calls[k].out = 0]
  IN  IF parsed = None THEN Log(S1, k, Entry("garbled", 0, << >>, ""))
      ELSE IF k = j THEN S1
      ELSE Log(S1, k, Entry("ans", parsed[1].cmdId, << >>,
                            IF Positive(parsed[1].cmdId, parsed[1].payload) THEN "ok" ELSE "no"))

\* timerFired that also marks the client disconnected
timerFiredTearsDown(S, i) ==
  LET pc == S.calls[i].pc
      cmd == IF pc = "ackWait" THEN PrintRequest ELSE GetStatus
      S1 == Log([S EXCEPT !.mgrs[S.calls[i].pr].pendingResolvers[cmd] = 0,
                          !.calls[i].out = 0, !.isConnected = FALSE],
                i, Entry("timeout", cmd, << >>, ""))
  IN  IF pc = "statusWait" THEN getStatusCatch(S1, i, TimeoutMessage(cmd))
      ELSE printCatch(S1, i, TimeoutMessage(cmd))

\* the timer of waitForNotification fires: the entry of the id is deleted,
\* whoever registered it, and the promise of call i is rejected
timerFired(S, i) ==
  LET pc == S.calls[i].pc
      cmd == IF pc = "ackWait" THEN PrintRequest ELSE GetStatus
      S1 == Log([S EXCEPT !.mgrs[S.calls[i].pr].pendingResolvers[cmd] = 0,
                          !.calls[i].out = 0],
                i, Entry("timeout", cmd, << >>, ""))
  IN  IF pc = "statusWait" THEN getStatusCatch(S1, i, TimeoutMessage(cmd))
      ELSE printCatch(S1, i, TimeoutMessage(cmd))

\* the promise of a characteristic write resolved
writeResolved(S, i) ==
  LET pc == S.calls[i].pc
  IN  IF pc = "intensityWrite" THEN [S EXCEPT !.calls[i].pc = "intensityDelay"]
      ELSE IF pc = "preWrite" THEN waitForNotification(S, i, GetStatus, "preWait")
      ELSE IF pc = "reqWrite" THEN waitForNotification(S, i, PrintRequest, "ackWait")
      ELSE IF pc = "statusWrite" THEN waitForNotification(S, i, GetStatus, "statusWait")
      ELSE IF pc = "dataWrite" THEN [S EXCEPT !.calls[i].pc = "dataDelay"]
      ELSE [S EXCEPT !.calls[i].pc = "flushDelay"]

\* the promise of a characteristic write rejected
writeRejected(S, i) ==
  LET S1 == [S EXCEPT !.calls[i].out = 0]
  IN  IF S.calls[i].pc = "statusWrite"
      THEN getStatusCatch(S1, i, WriteError)
      ELSE printCatch(S1, i, WriteError)

\* a delay() elapsed; choice is what the loop condition read next finds
delayElapsed(S, i, choice) ==
  LET pc == S.calls[i].pc
  IN  IF pc = "intensityDelay" THEN printAfterIntensity(S, i)
      ELSE IF pc = "dataDelay" THEN printAfterChunk(S, i, choice)
      ELSE IF pc = "flushDelay" THEN printAfterFlush(S, i)
      ELSE printAfterPoll(S, i, choice)

\* an adapter or characteristic operation of connect/reconnect/disconnect settled
adapterSettled(S, i, ok) ==
  LET pc == S.calls[i].pc
  IN  IF pc = "requestDevice" THEN connectAfterRequestDevice(S, i, ok)
      ELSE IF pc = "adapterConnect" THEN connectAfterConnect(S, i, ok)
      ELSE IF pc = "startNotifications" THEN connectAfterSubscribe(S, i, ok)
      ELSE IF pc = "stopNotifications" THEN disconnectAfterStop(S, i, ok)
      ELSE disconnectAfterRelease(S, i, ok)

WritePcs == { "intensityWrite", "preWrite", "reqWrite", "statusWrite", "dataWrite", "flushWrite" }
DelayPcs == { "intensityDelay", "dataDelay", "flushDelay", "pollDelay" }
WaitPcs == { "preWait", "ackWait", "statusWait" }
AdapterPcs == { "requestDevice", "adapterConnect", "startNotifications", "stopNotifications", "release" }

\* ---------------------------------------------------------------- actions
DefaultDither == "steinberg"
DefaultIntensity == 93     \* 0x5d

\* a freshly constructed client, no call made
Fresh ==
  /\ isConnected = FALSE
  /\ isPrinting = FALSE
  /\ printerState = None
  /\ statusMessage = "Ready to connect printer"
  /\ ditherMethod = DefaultDither
  /\ printIntensity = DefaultIntensity
  /\ printer = 0
  /\ connection = 0
  /\ device = 0
  /\ conns = [c \in Conns |-> NewConn]
  /\ mgrs = [c \in Conns |-> NewManager]
  /\ calls = [i \in Calls |-> IdleCall]
  /\ nconn = 0
  /\ nops = 0
  /\ last = "none"

Init ==
  /\ Fresh
  /\ scope = [par |-> MaxCalls, ops |-> MaxOps, noise |-> FALSE, text |-> FALSE]
  /\ input = None
  /\ output = None

\* the host calls a facade method; the call takes the first free slot
Free(i) ==
  /\ nops < scope.ops
  /\ Cardinality({ j \in Calls : Running(calls[j]) }) < scope.par
  /\ nops' = nops + 1
  /\ calls[i].pc = "idle"
  /\ \A j \in Calls : j < i => calls[j].pc # "idle"

CallConnect(i) == Free(i) /\ Commit(connect(Begin(Cur, i, "connect"), i))

CallReconnect(i) ==
  /\ Free(i)
  /\ \E lookup \in BOOLEAN : Commit(reconnect(Begin(Cur, i, "reconnect"), i, lookup))

CallDisconnect(i) == Free(i) /\ Commit(disconnect(Begin(Cur, i, "disconnect"), i))

CallGetStatus(i) == Free(i) /\ Commit(getStatus(Begin(Cur, i, "getStatus"), i))

CallPrint(i) ==
  /\ Free(i)
  /\ \E prepared \in BOOLEAN : Commit(print(Begin(Cur, i, "print"), i, prepared))

\* history kept of the settled calls: a connect() failed, a command timed out
\* on the present connection, or the last call was a print() that resolved
Outcome(c, before) ==
  IF c.op = "connect" /\ c.res = "rejected" THEN "connectFailed"
  ELSE IF c.op \in { "connect", "reconnect", "disconnect" } THEN "none"
  ELSE IF \E n \in 1 .. Len(c.log) : c.log[n].k = "timeout" THEN "timeout"
  ELSE IF c.err = PrintTimeoutMessage THEN "timeout"
  ELSE IF c.op = "print" /\ c.res = "void" THEN "printed"
  ELSE before

\* the host has seen the outcome of a settled call
Return(i) ==
  /\ calls[i].pc = "done"
  /\ calls' = [calls EXCEPT ![i] = IdleCall]
  /\ last' = Outcome(calls[i], last)
  /\ UNCHANGED << isConnected, isPrinting, printerState, statusMessage, ditherMethod,
                  printIntensity, printer, connection, device, conns, mgrs, nconn,
                  nops, scope, input, output >>

AdapterDone(i) ==
  /\ calls[i].pc \in AdapterPcs
  /\ \E ok \in BOOLEAN :
       /\ (calls[i].pc = "adapterConnect" /\ ok) => nconn < MaxConns
       /\ Step(adapterSettled(Cur, i, ok))

PairedDone(i) ==
  /\ calls[i].pc = "getPairedDevice"
  /\ \E found \in { "device", "null", "throw" } : Step(reconnectAfterPaired(Cur, i, found))

WriteDone(i) == calls[i].pc \in WritePcs /\ Step(writeResolved(Cur, i))

WriteFail(i) == calls[i].pc \in WritePcs /\ Step(writeRejected(Cur, i))

DelayDone(i) ==
  /\ calls[i].pc \in DelayPcs
  /\ \E choice \in BOOLEAN : Step(delayElapsed(Cur, i, choice))

TimerFire(i) == calls[i].pc \in WaitPcs /\ Step(timerFired(Cur, i))

\* the device answers the command call k wrote, and the transport delivers
\* the value on the subscribed notify characteristic of that connection
Deliver(k, message) ==
  /\ calls[k].out # 0
  /\ message \in Answers(calls[k].out, scope.noise)
  /\ LET c == calls[k].pr
     IN  conns[c].started /\ conns[c].listener /\ ~conns[c].released
  /\ Step(notifier(answered(Cur, message, k), message))

\* a settled call is seen by the host before anything else happens
Settled == \E i \in Calls : calls[i].pc = "done"

Next ==
  \/ \E i \in Calls : Return(i)
  \/ ~Settled /\ \E i \in Calls : CallConnect(i)
  \/ ~Settled /\ \E i \in Calls : CallReconnect(i)
  \/ ~Settled /\ \E i \in Calls : CallDisconnect(i)
  \/ ~Settled /\ \E i \in Calls : CallGetStatus(i)
  \/ ~Settled /\ \E i \in Calls : CallPrint(i)
  \/ ~Settled /\ \E i \in Calls : AdapterDone(i)
  \/ ~Settled /\ \E i \in Calls : PairedDone(i)
  \/ ~Settled /\ \E i \in Calls : WriteDone(i)
  \/ ~Settled /\ \E i \in Calls : WriteFail(i)
  \/ ~Settled /\ \E i \in Calls : DelayDone(i)
  \/ ~Settled /\ \E i \in Calls : TimerFire(i)
  \/ ~Settled /\ \E i \in Calls, message \in Frames : Deliver(i, message)

Spec == Init /\ [][Next]_vars

\* the host sets the default dither method or the default intensity
SetDitherMethod(method) == Step(setDitherMethod(Cur, method))

SetPrintIntensity(intensity) == Step(setPrintIntensity(Cur, intensity))

DitherMethods == { "threshold", "steinberg" }
Intensities == { -1, 0, DefaultIntensity, 256 }

\* One call at a time, on a link that may garble or shorten a frame, with
\* the status text followed and the settings changed at any moment.
InitSeq ==
  /\ Fresh
  /\ scope = [par |-> 1, ops |-> MaxOps, noise |-> TRUE, text |-> TRUE]
  /\ input = None
  /\ output = None

NextSeq ==
  \/ Next
  \/ ~Settled /\ \E method \in DitherMethods : SetDitherMethod(method)
  \/ ~Settled /\ \E intensity \in Intensities : SetPrintIntensity(intensity)

SpecSeq == InitSeq /\ [][NextSeq]_vars

\* ------------------------------------------------------------ the codec
\* all sequences over bytes of length up to n
RECURSIVE SeqsUpTo(_, _)
SeqsUpTo(bytes, n) ==
  IF n = 0 THEN { << >> }
  ELSE LET shorter == SeqsUpTo(bytes, n - 1)
       IN  shorter \cup { Append(q, b) : q \in shorter, b \in bytes }

Zeros(n) == [k \in 1 .. n |-> 0]

\* byte sequences a notification may consist of: the header bytes, zero, and
\* the ids the tracker reacts to, in any order
NotifyBytes == { 0, HEADER_BYTE_2, HEADER_BYTE_1, GetStatus, PrintComplete }

\* payloads a command is built from: short ones of any content, and long
\* ones around the point where the high length byte comes into play and at
\* the largest length the length field holds
Payloads ==
  SeqsUpTo({ 0, 1, TERMINATOR }, MaxLen)
    \cup { Zeros(n) : n \in { 255, 256, 257, 65535 } }

CommandIds == { 0, GetStatus, PrintRequest, 255 }

\* a tracker with a waiter registered, the completion flag set and a fault known
BusyManager ==
  [state |-> [createDefaultState EXCEPT !.out_of_paper = TRUE],
   printComplete |-> TRUE,
   pendingResolvers |-> [c \in WaitCmds |-> 1]]

\* status payloads: every value of byte 6, in payloads of the shortest length
\* that decodes and longer ones, the other bytes all clear or all set; and
\* payloads too short to decode
StatusPayloads ==
  { [k \in 1 .. n |-> IF k = 7 THEN b ELSE fill] :
      n \in { 7, 8, 14 }, b \in 0 .. 255, fill \in { 0, TERMINATOR } }
  \cup { Zeros(n) : n \in 0 .. 6 }

CodecInput(f, m, command, bytes) == [f |-> f, m |-> m, command |-> command, bytes |-> bytes]

CodecInputs ==
  { CodecInput("notify", m, 0, bytes) :
      m \in { NewManager, BusyManager }, bytes \in SeqsUpTo(NotifyBytes, MaxLen) }
  \cup { CodecInput("notify", BusyManager, 0, bytes) :
           bytes \in { Garbled,
                       << HEADER_BYTE_2, HEADER_BYTE_1, PrintComplete, 0, 0, 0, 0, TERMINATOR >>,
                       << HEADER_BYTE_1, 0, GetStatus, 0, 1, 0, 0, 0, TERMINATOR >> } }
  \cup { CodecInput("makeCommand", NewManager, command, payload) :
           command \in CommandIds, payload \in Payloads }
  \cup { CodecInput("parsePrinterState", NewManager, 0, payload) :
           payload \in StatusPayloads }

CodecOutput(m, bytes, parsed) == [m |-> m, bytes |-> bytes, parsed |-> parsed]

InitCodec ==
  /\ Fresh
  /\ scope = [par |-> 0, ops |-> 0, noise |-> FALSE, text |-> FALSE]
  /\ input \in { Some(x) : x \in CodecInputs }
  /\ output = None

Client ==
  << isConnected, isPrinting, printerState, statusMessage, ditherMethod,
     printIntensity, printer, connection, device, conns, mgrs, calls, nconn,
     nops, last, scope >>

\* MXW01Printer.notify is called with the bytes on the tracker
Notify ==
  /\ input[1].f = "notify" /\ output = None
  /\ output' = Some(CodecOutput(notify(input[1].m, input[1].bytes), << >>,
                                 parseNotification(input[1].bytes)))
  /\ UNCHANGED << Client, input >>

\* makeCommand is called with the command id and the payload
MakeCommand ==
  /\ input[1].f = "makeCommand" /\ output = None
  /\ output' = Some(CodecOutput(input[1].m, makeCommand(input[1].command, input[1].bytes), None))
  /\ UNCHANGED << Client, input >>

\* the frame makeCommand built is given to parseNotification
ParseFrame ==
  /\ input[1].f = "makeCommand" /\ output # None /\ output[1].parsed = None
  /\ output' = Some([output[1] EXCEPT !.parsed = parseNotification(output[1].bytes)])
  /\ UNCHANGED << Client, input >>

\* parsePrinterState is called with the status payload
ParsePrinterState ==
  /\ input[1].f = "parsePrinterState" /\ output = None
  /\ output' = Some(CodecOutput(input[1].m, << >>, parsePrinterState(input[1].bytes)))
  /\ UNCHANGED << Client, input >>

NextCodec == Notify \/ MakeCommand \/ ParseFrame \/ ParsePrinterState

SpecCodec == InitCodec /\ [][NextCodec]_vars

\* ------------------------------------------------------- sendDataChunks
Min(a, b) == IF a < b THEN a ELSE b

\* the bytes 1, 2, ... of a buffer of n bytes, so that no two chunks are alike
Ramp(n) == [k \in 1 .. n |-> k % 256]

\* buffers to send: short ones of any content, and buffers of 96 and 100
\* bytes, which the row size of 48 bytes does and does not divide
Buffers == SeqsUpTo({ 0, 1, TERMINATOR }, MaxLen) \cup { Ramp(96), Ramp(100) }

ChunkSizes == { 1, 2, MaxLen, PRINTER_WIDTH_BYTES }

\* the loop of sendDataChunks that stops before a chunk shorter than chunkSize
sendDataChunksWholeOnly(o, data, chunkSize) ==
  IF o.pos + chunkSize <= Len(data)
  THEN LET chunk == Slice(data, o.pos, Min(o.pos + chunkSize, Len(data)))
       IN  [o EXCEPT !.writes = Append(@, [channel |-> "data", bytes |-> chunk]),
                     !.pc = "dataWrite"]
  ELSE [o EXCEPT !.pc = "returned"]

\* sendDataChunks at the head of its loop: while pos < data.length the next
\* chunk is sliced off and handed to this.dataWrite, else the method returns
sendDataChunks(o, data, chunkSize) ==
  IF o.pos < Len(data)
  THEN LET chunk == Slice(data, o.pos, Min(o.pos + chunkSize, Len(data)))
       IN  [o EXCEPT !.writes = Append(@, [channel |-> "data", bytes |-> chunk]),
                     !.pc = "dataWrite"]
  ELSE [o EXCEPT !.pc = "returned"]

InitChunks ==
  /\ Fresh
  /\ scope = [par |-> 0, ops |-> 0, noise |-> FALSE, text |-> FALSE]
  /\ input \in { Some([f |-> "sendDataChunks", data |-> data, chunkSize |-> chunkSize]) :
                    data \in Buffers, chunkSize \in ChunkSizes }
  /\ output = None

\* sendDataChunks(data, chunkSize) is called: pos = 0
SendDataChunks ==
  /\ output = None
  /\ output' = Some(sendDataChunks([pos |-> 0, writes |-> << >>, pc |-> "start"],
                                     input[1].data, input[1].chunkSize))
  /\ UNCHANGED << Client, input >>

\* ChunkWritten that goes on with the next chunk at once
ChunkWrittenNoDelay ==
  /\ output # None /\ output[1].pc = "dataWrite"
  /\ LET o == output[1]
     IN  output' = Some(sendDataChunks([o EXCEPT !.pos = @ + Len(o.writes[Len(o.writes)].bytes)],
                                        input[1].data, input[1].chunkSize))
  /\ UNCHANGED << Client, input >>

\* the promise of this.dataWrite(chunk) resolved: pos += chunk.length, delay(15)
ChunkWritten ==
  /\ output # None /\ output[1].pc = "dataWrite"
  /\ LET o == output[1]
     IN  output' = Some([o EXCEPT !.pos = @ + Len(o.writes[Len(o.writes)].bytes),
                                  !.pc = "dataDelay"])
  /\ UNCHANGED << Client, input >>

\* the promise of this.dataWrite(chunk) rejected: sendDataChunks throws
ChunkRejected ==
  /\ output # None /\ output[1].pc = "dataWrite"
  /\ output' = Some([output[1] EXCEPT !.pc = "threw"])
  /\ UNCHANGED << Client, input >>

\* delay(15) elapsed: back to the head of the loop
ChunkDelayed ==
  /\ output # None /\ output[1].pc = "dataDelay"
  /\ output' = Some(sendDataChunks(output[1], input[1].data, input[1].chunkSize))
  /\ UNCHANGED << Client, input >>

NextChunks == SendDataChunks \/ ChunkWritten \/ ChunkRejected \/ ChunkDelayed

\* the event loop runs every task that is ready: a transport write settles,
\* a timer of 15 ms elapses
SpecChunks == InitChunks /\ [][NextChunks]_vars /\ WF_vars(NextChunks)

\* ------------------------------------------------ waitForPrintComplete
PollMs == 100               \* delay(100) between two looks at the flag
DefaultTimeoutMs == 20000   \* timeoutMs of waitForPrintComplete

\* timeouts tried: none, one poll, between two polls, the default
TimeoutsMs == { 0, PollMs, 250, DefaultTimeoutMs }

\* by how much a timer may fire late
Lateness == { 0, PollMs }

\* PrinterStateManager.resetPrintComplete
resetPrintComplete(m) == [m EXCEPT !.printComplete = FALSE]

\* the head of the loop and what follows it: another delay while the flag is
\* clear and the time is not up, else an error if the flag is clear
waitLoop(o, timeoutMs) ==
  IF ~o.m.printComplete /\ o.now - o.startTime < timeoutMs
  THEN [o EXCEPT !.pc = "pollDelay"]
  ELSE IF ~o.m.printComplete
       THEN [o EXCEPT !.pc = "threw", !.err = PrintTimeoutMessage]
       ELSE [o EXCEPT !.pc = "returned"]

\* waitForPrintComplete that does not clear the flag first
waitForPrintCompleteKeepsFlag(o, timeoutMs) ==
  waitLoop([o EXCEPT !.startTime = o.now], timeoutMs)

\* waitForPrintComplete up to its first suspension
waitForPrintComplete(o, timeoutMs) ==
  waitLoop([o EXCEPT !.m = resetPrintComplete(@), !.startTime = o.now], timeoutMs)

\* the call is made on a tracker whose flag is clear, or set by an earlier job
InitWait ==
  /\ Fresh
  /\ scope = [par |-> 0, ops |-> 0, noise |-> FALSE, text |-> FALSE]
  /\ input \in { Some([f |-> "waitForPrintComplete", m |-> m, timeoutMs |-> timeoutMs]) :
                    m \in { NewManager, BusyManager }, timeoutMs \in TimeoutsMs }
  /\ output = None

\* waitForPrintComplete(timeoutMs) is called; notified is history: whether a
\* PrintComplete notification was processed since the flag was cleared
WaitForPrintComplete ==
  /\ output = None
  /\ output' = Some(waitForPrintComplete(
                      [m |-> input[1].m, pc |-> "start", startTime |-> 0, now |-> 0,
                       notified |-> FALSE, err |-> ""],
                      input[1].timeoutMs))
  /\ UNCHANGED << Client, input >>

\* delay(100) elapsed, on time or late: back to the head of the loop
PollDelayed ==
  /\ output # None /\ output[1].pc = "pollDelay"
  /\ \E late \in Lateness :
       output' = Some(waitLoop([output[1] EXCEPT !.now = @ + PollMs + late], input[1].timeoutMs))
  /\ UNCHANGED << Client, input >>

\* the transport delivers a notification while the call is suspended
WaitNotified ==
  /\ output # None /\ output[1].pc = "pollDelay"
  /\ \E cmdId \in { PrintComplete, GetStatus } :
       output' = Some([output[1] EXCEPT
                         !.m = processNotification(@, cmdId, << 0 >>),
                         !.notified = @ \/ cmdId = PrintComplete])
  /\ UNCHANGED << Client, input >>

NextWait == WaitForPrintComplete \/ PollDelayed \/ WaitNotified

\* the timer of delay(100) fires in the end; nothing makes the device answer
SpecWait == InitWait /\ [][NextWait]_vars /\ WF_vars(WaitForPrintComplete \/ PollDelayed)

\* ------------------------------------------------------- EventEmitter
MaxListeners == 3     \* host listeners that may subscribe

Listeners == 1 .. MaxListeners
EventTypes == { "connected", "error" }

\* new EventEmitter(): no listener for any type; a Set keeps insertion order
NewEmitter ==
  [listeners |-> [t \in EventTypes |-> << >>],
   last |-> [op |-> "new", type |-> "", invoked |-> << >>, logged |-> 0, threw |-> FALSE]]

Done(op, type) == [op |-> op, type |-> type, invoked |-> << >>, logged |-> 0, threw |-> FALSE]

\* on(eventType, listener): Set.add, which leaves a listener that is there in place
on(e, eventType, listener) ==
  LET ls == e.listeners[eventType]
  IN  [e EXCEPT !.listeners[eventType] =
                   IF \E k \in 1 .. Len(ls) : ls[k] = listener THEN ls ELSE Append(ls, listener),
                !.last = Done("on", eventType)]

\* the function on() returned is called: Set.delete
unsubscribe(e, eventType, listener) ==
  [e EXCEPT !.listeners[eventType] = SelectSeq(@, LAMBDA l : l # listener),
            !.last = Done("unsubscribe", eventType)]

\* clear(): no listener is left
clearAll(e) == [NewEmitter EXCEPT !.last = Done("clear", "")]

\* emit with no try around the listener: the first exception ends the loop
\* and reaches the caller
emitEventUnguarded(e, eventType, throwing) ==
  LET ls == e.listeners[eventType]
      bad == { k \in 1 .. Len(ls) : ls[k] \in throwing }
      stop == IF bad = { } THEN Len(ls) ELSE CHOOSE k \in bad : \A o \in bad : k <= o
  IN  [e EXCEPT !.last = [op |-> "emit", type |-> eventType, invoked |-> SubSeq(ls, 1, stop),
                          logged |-> 0, threw |-> bad # { }]]

\* emit(event): every listener of the type is called in a try of its own, in
\* the order of subscription; what a listener throws is caught and logged
emitEvent(e, eventType, throwing) ==
  LET ls == e.listeners[eventType]
  IN  [e EXCEPT !.last = [op |-> "emit", type |-> eventType, invoked |-> ls,
                          logged |-> Cardinality({ k \in 1 .. Len(ls) : ls[k] \in throwing }),
                          threw |-> FALSE]]

\* which of the host's listeners throw when they are called
InitEmit ==
  /\ Fresh
  /\ scope = [par |-> 0, ops |-> 0, noise |-> FALSE, text |-> FALSE]
  /\ input \in { Some([f |-> "emit", throwing |-> throwing]) : throwing \in SUBSET Listeners }
  /\ output = Some(NewEmitter)

On(eventType, listener) ==
  /\ output' = Some(on(output[1], eventType, listener))
  /\ UNCHANGED << Client, input >>

Unsubscribe(eventType, listener) ==
  /\ \E k \in 1 .. Len(output[1].listeners[eventType]) :
       output[1].listeners[eventType][k] = listener
  /\ output' = Some(unsubscribe(output[1], eventType, listener))
  /\ UNCHANGED << Client, input >>

Emit(eventType) ==
  /\ output' = Some(emitEvent(output[1], eventType, input[1].throwing))
  /\ UNCHANGED << Client, input >>

Clear ==
  /\ output' = Some(clearAll(output[1]))
  /\ UNCHANGED << Client, input >>

NextEmit ==
  \/ \E eventType \in EventTypes, listener \in Listeners : On(eventType, listener)
  \/ \E eventType \in EventTypes, listener \in Listeners : Unsubscribe(eventType, listener)
  \/ \E eventType \in EventTypes : Emit(eventType)
  \/ Clear

SpecEmit == InitEmit /\ [][NextEmit]_vars

\* ------------------------------------------------- dithering.ts (ditherers)
\* the value a Uint8ClampedArray stores for num / den (den > 0): clamped to
\* 0..255 and rounded to the nearest integer, a tie to the even one
ToUint8Clamp(num, den) ==
  LET q == num \div den
      r == num % den
      rounded == IF 2 * r < den THEN q
                 ELSE IF 2 * r > den THEN q + 1
                 ELSE IF q % 2 = 0 THEN q ELSE q + 1
  IN  IF rounded < 0 THEN 0 ELSE IF rounded > 255 THEN 255 ELSE rounded

\* mono[k] += num / den, k counted from 0
Diffuse(mono, k, num, den) == [mono EXCEPT ![k + 1] = ToUint8Clamp(den * @ + num, den)]

\* ThresholdDither.apply: every element of the buffer
ThresholdDither(mono) == [k \in 1 .. Len(mono) |-> IF mono[k] > 128 THEN 255 ELSE 0]

\* the body of the loop of SteinbergDither.apply for the pixel p
SteinbergPixel(mono, width, height, p) ==
  LET i == p % width
      j == p \div width
      oldPixel == mono[p + 1]
      newPixel == IF oldPixel > 128 THEN 255 ELSE 0
      error == oldPixel - newPixel
      m0 == [mono EXCEPT ![p + 1] = newPixel]
      m1 == IF i < width - 1 THEN Diffuse(m0, p + 1, error * 7, 16) ELSE m0
      m2 == IF j < height - 1 /\ i > 0 THEN Diffuse(m1, p + width - 1, error * 3, 16) ELSE m1
      m3 == IF j < height - 1 THEN Diffuse(m2, p + width, error * 5, 16) ELSE m2
  IN  IF j < height - 1 /\ i < width - 1 THEN Diffuse(m3, p + width + 1, error, 16) ELSE m3

\* the body of the loop of AtkinsonDither.apply for the pixel p; >> 3 rounds
\* towards minus infinity
AtkinsonPixel(mono, width, height, p) ==
  LET i == p % width
      j == p \div width
      oldPixel == mono[p + 1]
      newPixel == IF oldPixel > 128 THEN 255 ELSE 0
      error == (oldPixel - newPixel) \div 8
      m0 == [mono EXCEPT ![p + 1] = newPixel]
      m1 == IF i < width - 1 THEN Diffuse(m0, p + 1, error, 1) ELSE m0
      m2 == IF i < width - 2 THEN Diffuse(m1, p + 2, error, 1) ELSE m1
      m3 == IF j < height - 1 /\ i > 0 THEN Diffuse(m2, p + width - 1, error, 1) ELSE m2
      m4 == IF j < height - 1 THEN Diffuse(m3, p + width, error, 1) ELSE m3
      m5 == IF j < height - 1 /\ i < width - 1 THEN Diffuse(m4, p + width + 1, error, 1) ELSE m4
  IN  IF j < height - 2 THEN Diffuse(m5, p + 2 * width, error, 1) ELSE m5

\* the loops of SteinbergDither.apply and AtkinsonDither.apply over the
\* pixels lo..hi in row order, each pixel on the buffer the one before left
RECURSIVE ErrorDiffusion(_, _, _, _, _, _)
ErrorDiffusion(method, mono, width, height, lo, hi) ==
  IF lo > hi THEN mono
  ELSE IF lo = hi
       THEN IF method = "steinberg" THEN SteinbergPixel(mono, width, height, lo)
            ELSE AtkinsonPixel(mono, width, height, lo)
       ELSE LET mid == (lo + hi) \div 2
                left == ErrorDiffusion(method, mono, width, height, lo, mid)
            IN  IF Len(left) >= 0
                THEN ErrorDiffusion(method, left, width, height, mid + 1, hi)
                ELSE left

bayer8 ==
  << 0, 48, 12, 60, 3, 51, 15, 63, 32, 16, 44, 28, 35, 19, 47, 31, 8, 56, 4, 52,
     11, 59, 7, 55, 40, 24, 36, 20, 43, 27, 39, 23, 2, 50, 14, 62, 1, 49, 13,
     61, 34, 18, 46, 30, 33, 17, 45, 29, 10, 58, 6, 54, 9, 57, 5, 53, 42, 26,
     38, 22, 41, 25, 37, 21 >>

\* BayerDither.apply: pixel + (bayerValue - 32) * 0.6 > 128, which is
\* 5 * pixel + 3 * (bayerValue - 32) > 640 for every pixel and matrix value
BayerDither(mono, width, height) ==
  [k \in 1 .. Len(mono) |->
     IF k > width * height THEN mono[k]
     ELSE LET i == (k - 1) % width
              j == (k - 1) \div width
              bayerValue == bayer8[(j % 8) * 8 + (i % 8) + 1]
          IN  IF 5 * mono[k] + 3 * (bayerValue - 32) > 640 THEN 255 ELSE 0]

Abs(x) == IF x < 0 THEN -x ELSE x

\* HalftoneDither.apply. Tiles of 4 x 4 pixels are processed at the origins
\* j < height - 4, i < width - 4; in a tile a pixel is white when
\* |x - 3| or |y - 3| reaches (1 - sum / 16 / 255) * 4, that is when
\* 1020 * |x - 3| >= 4080 - sum. In the first row of each processed row of
\* tiles the columns from width - width % 4 are set white, and at the end
\* the rows from height - height % 4. Every other pixel is left as it was.
HalftoneDither(mono, width, height) ==
  [k \in 1 .. Len(mono) |->
     LET i == (k - 1) % width
         j == (k - 1) \div width
         ti == 4 * (i \div 4)
         tj == 4 * (j \div 4)
         At2(x, y) == mono[(tj + y) * width + ti + x + 1]
         col(x) == At2(x, 0) + At2(x, 1) + At2(x, 2) + At2(x, 3)
         sum == col(0) + col(1) + col(2) + col(3)
     IN  IF k > width * height THEN mono[k]
         ELSE IF j >= height - (height % 4) THEN 255
         ELSE IF tj < height - 4 /\ ti < width - 4
              THEN IF \/ 1020 * Abs(i - ti - 3) >= 4080 - sum
                      \/ 1020 * Abs(j - tj - 3) >= 4080 - sum
                   THEN 255 ELSE 0
         ELSE IF j % 4 = 0 /\ j < height - 4 /\ i >= width - (width % 4) THEN 255
         ELSE mono[k]]

\* getDitherAlgorithm(method).apply(mono, width, height); the error
\* diffusion works on the buffer element by element
ditherApply(method, mono, width, height) ==
  IF method \in { "steinberg", "atkinson" }
  THEN ErrorDiffusion(method, SubSeq(mono, 1, Len(mono)), width, height, 0, width * height - 1)
  ELSE IF method = "bayer" THEN BayerDither(mono, width, height)
  ELSE IF method = "pattern" THEN HalftoneDither(mono, width, height)
  ELSE ThresholdDither(mono)

AllDitherMethods == { "threshold", "steinberg", "bayer", "atkinson", "pattern" }

\* gray levels a buffer is made of: black, white, the cutoff and its neighbours
Levels == << 0, 100, 128, 129, 200, 255 >>

\* a buffer of n gray levels: Levels taken in steps of step from start on
Shades(n, start, step) == [k \in 1 .. n |-> Levels[((start + (k - 1) * step) % Len(Levels)) + 1]]

\* grayscale images of every width and height up to MaxSide, and of a width
\* or height of two and a half tiles: of one level, or of levels in turn
GrayImages ==
  { [data |-> Shades(width * height, start, step), width |-> width, height |-> height] :
      width \in 1 .. MaxSide \cup { 10 }, height \in 1 .. MaxSide \cup { 10 },
      start \in 0 .. Len(Levels) - 1, step \in { 0, 1 } }

\* ------------------------------------- imageTransforms.ts, imageProcessor.ts
\* where rotate writes the pixel (x, y) of the input: the index in the result
rotateTargetTransposes(x, y, width, height, angle) ==
  IF angle = 90 THEN x * height + y
  ELSE IF angle = 180 THEN (height - 1 - y) * width + (width - 1 - x)
  ELSE (width - 1 - x) * height + y

\* where rotate writes the pixel (x, y) of the input: result[outY * stride +
\* outX], the stride being the height for 90 and 270 and the width for 180
rotateTarget(x, y, width, height, angle) ==
  IF angle = 90 THEN x * height + (height - 1 - y)
  ELSE IF angle = 180 THEN (height - 1 - y) * width + (width - 1 - x)
  ELSE (width - 1 - x) * height + y

\* rotate: the data itself for 0, else a new zeroed array of the same length
\* into which every pixel (x, y), y < height, x < width, is written in turn
rotate(data, width, height, angle) ==
  IF angle = 0 THEN data
  ELSE [k \in 1 .. Len(data) |->
          LET from == { q \in 0 .. width * height - 1 :
                          rotateTarget(q % width, q \div width, width, height, angle) = k - 1 }
          IN  IF from = { } THEN 0
              ELSE data[(CHOOSE q \in from : \A o \in from : o <= q) + 1]]

\* flip: the data itself for none, else a new array filled for j < height,
\* i < width
flip(data, width, height, mode) ==
  IF mode = "none" THEN data
  ELSE [k \in 1 .. Len(data) |->
          LET i == (k - 1) % width
              j == (k - 1) \div width
          IN  IF k > width * height THEN 0
              ELSE IF mode = "h" THEN data[j * width + (width - i - 1) + 1]
              ELSE IF mode = "v" THEN data[(height - j - 1) * width + i + 1]
              ELSE data[(height - j - 1) * width + (width - i - 1) + 1]]

RECURSIVE Gcd(_, _)
Gcd(a, b) == IF b = 0 THEN a ELSE Gcd(b, a % b)

\* rgbaToGray(rgba, brightness, true) on the bytes of the pixels. A channel
\* c of a pixel of alpha a is composed against white, c + (255 - c) * (1 -
\* a / 255), which is c for a = 255; the weighted sum is n / d in lowest
\* terms; the brightness term is zero for brightness 128.
rgbaToGray(data, brightness) ==
  [q \in 1 .. Len(data) \div 4 |->
     LET a == data[4 * q]
         White(c) == 255 * c + (255 - c) * (255 - a)
         n0 == 2125 * White(data[4 * q - 3]) + 7154 * White(data[4 * q - 2])
                 + 721 * White(data[4 * q - 1])
         g == Gcd(n0, 2550000)
         n == n0 \div g
         d == 2550000 \div g
     IN  IF brightness = 128 THEN ToUint8Clamp(n, d)
         ELSE ToUint8Clamp(65025 * n * d + 2 * (brightness - 128) * (255 * d - n) * n,
                           65025 * d * d)]

\* cropImageData as scaleImageData does it: nearest neighbour
cropImageDataScales(source, targetWidth, targetHeight) ==
  [data |-> [k \in 1 .. targetWidth * targetHeight * 4 |->
               LET x == ((k - 1) \div 4) % targetWidth
                   y == ((k - 1) \div 4) \div targetWidth
                   srcX == (x * source.width) \div targetWidth
                   srcY == (y * source.height) \div targetHeight
               IN  source.data[(srcY * source.width + srcX) * 4 + ((k - 1) % 4) + 1]],
   width |-> targetWidth, height |-> targetHeight]

\* cropImageData: the four bytes of every pixel of the top-left region
cropImageData(source, targetWidth, targetHeight) ==
  LET croppedWidth == Min(targetWidth, source.width)
      croppedHeight == Min(targetHeight, source.height)
  IN  [data |-> [k \in 1 .. croppedWidth * croppedHeight * 4 |->
                   LET x == ((k - 1) \div 4) % croppedWidth
                       y == ((k - 1) \div 4) \div croppedWidth
                   IN  source.data[(y * source.width + x) * 4 + ((k - 1) % 4) + 1]],
       width |-> croppedWidth, height |-> croppedHeight]

\* processImageForPrinter: gray, dither, flip, rotate, then one row of
\* booleans per line, black for a luminance below 128, padded with white up
\* to 384 pixels; a line of more than 384 pixels is left as long as it is
processImageForPrinter(imageData, options) ==
  LET width == imageData.width
      height == imageData.height
      gray == rgbaToGray(imageData.data, options.brightness)
      dithered == ditherApply(options.dither, gray, width, height)
      flipped == flip(dithered, width, height, options.flip)
      mono == rotate(flipped, width, height, options.rotate)
      swap == options.rotate \in { 90, 270 }
      finalWidth == IF swap THEN height ELSE width
      finalHeight == IF swap THEN width ELSE height
  IN  [width |-> finalWidth, height |-> finalHeight,
       binaryRows |-> [y \in 1 .. finalHeight |->
                         [x \in 1 .. (IF finalWidth < PRINTER_WIDTH THEN PRINTER_WIDTH ELSE finalWidth) |->
                            IF x <= finalWidth THEN mono[(y - 1) * finalWidth + x] < 128 ELSE FALSE]]]

\* ------------------------------------------------ printer.ts (row packing)
\* value when the pixel byteIndex * 8 + bit of the row is black, else 0
BitOf(rowBool, byteIndex, bit, value) == IF rowBool[byteIndex * 8 + bit + 1] THEN value ELSE 0

\* encode1bppRow with the first pixel of a group in the high bit
encode1bppRowHighFirst(rowBool) ==
  IF Len(rowBool) # PRINTER_WIDTH THEN None
  ELSE Some([k \in 1 .. PRINTER_WIDTH_BYTES |->
               BitOf(rowBool, k - 1, 0, 128) + BitOf(rowBool, k - 1, 1, 64)
                 + BitOf(rowBool, k - 1, 2, 32) + BitOf(rowBool, k - 1, 3, 16)
                 + BitOf(rowBool, k - 1, 4, 8) + BitOf(rowBool, k - 1, 5, 4)
                 + BitOf(rowBool, k - 1, 6, 2) + BitOf(rowBool, k - 1, 7, 1)])

\* encode1bppRow: throws (None) unless the row has 384 pixels; byteVal |=
\* 1 << bit for every black pixel byteIndex * 8 + bit
encode1bppRow(rowBool) ==
  IF Len(rowBool) # PRINTER_WIDTH THEN None
  ELSE Some([k \in 1 .. PRINTER_WIDTH_BYTES |->
               BitOf(rowBool, k - 1, 0, 1) + BitOf(rowBool, k - 1, 1, 2)
                 + BitOf(rowBool, k - 1, 2, 4) + BitOf(rowBool, k - 1, 3, 8)
                 + BitOf(rowBool, k - 1, 4, 16) + BitOf(rowBool, k - 1, 5, 32)
                 + BitOf(rowBool, k - 1, 6, 64) + BitOf(rowBool, k - 1, 7, 128)])

\* the buffer after the rows lo..hi were appended one after the other
RECURSIVE AppendRows(_, _, _)
AppendRows(encoded, lo, hi) ==
  IF lo > hi THEN << >>
  ELSE IF lo = hi THEN encoded[lo][1]
  ELSE LET mid == (lo + hi) \div 2
       IN  AppendRows(encoded, lo, mid) \o AppendRows(encoded, mid + 1, hi)

\* prepareImageDataBuffer that pads with set bytes
prepareImageDataBufferPadsSet(imageRowsBool) ==
  LET height == Len(imageRowsBool)
      encoded == [y \in 1 .. height |-> encode1bppRow(imageRowsBool[y])]
  IN  IF \E y \in 1 .. height : encoded[y] = None THEN None
      ELSE LET buffer == AppendRows(encoded, 1, height)
           IN  Some(IF Len(buffer) < MIN_DATA_BYTES
                    THEN buffer \o [k \in 1 .. MIN_DATA_BYTES - Len(buffer) |-> TERMINATOR]
                    ELSE buffer)

\* prepareImageDataBuffer: the encoded rows one after the other, then zero
\* bytes up to MIN_DATA_BYTES; it throws (None) when encode1bppRow does
prepareImageDataBuffer(imageRowsBool) ==
  LET height == Len(imageRowsBool)
      encoded == [y \in 1 .. height |-> encode1bppRow(imageRowsBool[y])]
  IN  IF \E y \in 1 .. height : encoded[y] = None THEN None
      ELSE LET buffer == AppendRows(encoded, 1, height)
           IN  Some(IF Len(buffer) < MIN_DATA_BYTES
                    THEN buffer \o Zeros(MIN_DATA_BYTES - Len(buffer))
                    ELSE buffer)

\* ------------------------------------------------------------ PrintJob.ts
\* option ?? default
OrDefault(option, default) == IF option = None THEN default ELSE option[1]

\* PrintJob.prepare(defaultDither): the options completed, the image cropped
\* when it is wider than the print head, processed and packed. imageBuffer
\* is None when the packing threw.
prepare(imageData, options, defaultDither) ==
  LET processingOptions ==
        [dither |-> OrDefault(options.dither, defaultDither),
         brightness |-> OrDefault(options.brightness, 128),
         flip |-> OrDefault(options.flip, "none"),
         rotate |-> OrDefault(options.rotate, 0)]
      processedImage ==
        IF imageData.width > PRINTER_WIDTH
        THEN cropImageData(imageData, PRINTER_WIDTH, imageData.height)
        ELSE imageData
      binaryRows == processImageForPrinter(processedImage, processingOptions).binaryRows
  IN  [processedImage |-> processedImage, binaryRows |-> binaryRows,
       imageBuffer |-> prepareImageDataBuffer(binaryRows), numLines |-> Len(binaryRows)]

\* ---------------------------------------------- the image pipeline, tried
\* the bytes of an image of the gray levels mono: opaque, or every other
\* pixel fully transparent
RgbaOf(mono, clear) ==
  [k \in 1 .. 4 * Len(mono) |->
     IF (k - 1) % 4 = 3
     THEN IF clear /\ ((k - 1) \div 4) % 2 = 1 THEN 0 ELSE 255
     ELSE mono[((k - 1) \div 4) + 1]]

Picture(width, height, start, step, clear) ==
  [data |-> RgbaOf(Shades(width * height, start, step), clear),
   width |-> width, height |-> height]

Options(dither, brightness, flipMode, angle) ==
  [dither |-> dither, brightness |-> brightness, flip |-> flipMode, rotate |-> angle]

NoOptions == Options(None, None, None, None)

PrepareInput(imageData, options, defaultDither) ==
  [f |-> "prepare", image |-> imageData, options |-> options, defaultDither |-> defaultDither]

Angles == { 0, 90, 180, 270 }

\* print jobs: small images under every flip and rotation; an all-black
\* image of 10 lines as wide as the print head; images one and two pixels
\* wider than the print head; an image that is higher than the print head
\* is wide, rotated; a brightness and a default dither method other than
\* the usual ones
PrepareInputs ==
  { PrepareInput(Picture(width, height, start, 1, clear),
                 Options(dither, None, flipMode, angle), DefaultDither) :
      width \in 1 .. MaxLen, height \in 1 .. MaxLen, start \in { 0, 3 }, clear \in BOOLEAN,
      dither \in { None, Some("threshold") },
      flipMode \in { None, Some("h"), Some("v"), Some("both") },
      angle \in { None, Some(90), Some(180), Some(270) } }
  \cup { PrepareInput(Picture(PRINTER_WIDTH, 10, 0, 0, FALSE), NoOptions, DefaultDither) }
  \cup { PrepareInput(Picture(width, height, 1, 1, FALSE), Options(None, None, None, angle), DefaultDither) :
           width \in { PRINTER_WIDTH, PRINTER_WIDTH + 1, PRINTER_WIDTH + 2 },
           height \in { 1, 2 }, angle \in { None, Some(180) } }
  \cup { PrepareInput(image, Options(None, None, None, Some(angle)), DefaultDither) :
           image \in { Picture(1, PRINTER_WIDTH, 1, 1, FALSE), Picture(1, PRINTER_WIDTH + 1, 1, 1, FALSE),
                        Picture(PRINTER_WIDTH + 1, 1, 1, 1, FALSE) },
           angle \in { 90, 270 } }
  \cup { PrepareInput(Picture(MaxLen, MaxLen, 1, 1, FALSE), Options(None, Some(brightness), None, None), method) :
           brightness \in { 0, 200 }, method \in { "atkinson", "bayer" } }

\* rows to pack: none, a few, and as many as make the minimum size, one
\* less and one more; black every m-th pixel, all white for m = 0
MinRows == MIN_DATA_BYTES \div PRINTER_WIDTH_BYTES

Rows(height, width, m) ==
  [y \in 1 .. height |-> [x \in 1 .. width |-> m > 0 /\ (x + y) % m = 0]]

PackInputs ==
  { [f |-> "pack", rows |-> Rows(height, PRINTER_WIDTH, m)] :
      height \in 0 .. MaxLen \cup { MinRows - 1, MinRows, MinRows + 1 }, m \in { 0, 1, 2, 3, 7 } }
  \cup { [f |-> "pack", rows |-> Rows(2, width, 2)] : width \in { PRINTER_WIDTH - 1, PRINTER_WIDTH + 1 } }

ImageInputs ==
  { [f |-> "dither", image |-> image, method |-> method] :
      image \in GrayImages, method \in AllDitherMethods }
  \cup { [f |-> "rotate", image |-> [data |-> Ramp(width * height), width |-> width, height |-> height]] :
           width \in 1 .. MaxSide, height \in 1 .. MaxSide }
  \cup PrepareInputs
  \cup PackInputs

InitImage ==
  /\ Fresh
  /\ scope = [par |-> 0, ops |-> 0, noise |-> FALSE, text |-> FALSE]
  /\ input \in { Some(x) : x \in ImageInputs }
  /\ output = None

\* a ditherer is applied to the grayscale buffer
Dither ==
  /\ input[1].f = "dither" /\ output = None
  /\ output' = Some([data |-> ditherApply(input[1].method, input[1].image.data,
                                           input[1].image.width, input[1].image.height)])
  /\ UNCHANGED << Client, input >>

\* rotate is applied to the image, or to the image the rotation before
\* returned, with the width and height that image has
Rotate(angle) ==
  /\ input[1].f = "rotate"
  /\ LET image == IF output = None
                  THEN [data |-> input[1].image.data, width |-> input[1].image.width,
                        height |-> input[1].image.height, angles |-> << >>]
                  ELSE output[1]
         swap == angle \in { 90, 270 }
     IN  /\ Len(image.angles) < 2
         /\ output' = Some([data |-> rotate(image.data, image.width, image.height, angle),
                             width |-> IF swap THEN image.height ELSE image.width,
                             height |-> IF swap THEN image.width ELSE image.height,
                             angles |-> Append(image.angles, angle)])
  /\ UNCHANGED << Client, input >>

\* PrintJob.prepare is called on the image with the options
Prepare ==
  /\ input[1].f = "prepare" /\ output = None
  /\ output' = Some(prepare(input[1].image, input[1].options, input[1].defaultDither))
  /\ UNCHANGED << Client, input >>

\* prepareImageDataBuffer is called on the rows
Pack ==
  /\ input[1].f = "pack" /\ output = None
  /\ output' = Some([imageBuffer |-> prepareImageDataBuffer(input[1].rows)])
  /\ UNCHANGED << Client, input >>

NextImage == Dither \/ (\E angle \in Angles : Rotate(angle)) \/ Prepare \/ Pack

SpecImage == InitImage /\ [][NextImage]_vars

TypeOK ==
  /\ isConnected \in BOOLEAN
  /\ isPrinting \in BOOLEAN
  /\ printer \in 0 .. MaxConns
  /\ connection = printer
  /\ nconn \in 0 .. MaxConns

\* ------------------------------------------------------------- properties
\* what a call did, reduced to the kind and command id of its entries of the
\* kinds in ks
Kinds(log, ks) ==
  LET Keep(e) == e.k \in ks
      sel == SelectSeq(log, Keep)
  IN  [n \in 1 .. Len(sel) |-> << sel[n].k, sel[n].cmd >>]

Prefix(s, t) == Len(s) <= Len(t) /\ SubSeq(t, 1, Len(s)) = s

Has(log, k, cmd) == \E n \in 1 .. Len(log) : log[n].k = k /\ log[n].cmd = cmd

Prints == { i \in Calls : calls[i].op = "print" }

DonePrints == { i \in Prints : calls[i].pc = "done" }

\* the writes, the replies received and the start of the completion wait of
\* a print job, in the order the sequence prescribes
PrintSequence ==
  << << "ctl", SetIntensity >>, << "ctl", GetStatus >>, << "reply", GetStatus >>,
     << "ctl", PrintRequest >>, << "reply", PrintRequest >>, << "data", 0 >>,
     << "ctl", FlushData >>, << "wait", 0 >> >>

\* C1: every print() that succeeded wrote SetIntensity, GetStatus,
\* PrintRequest, the data chunks and FlushData in this order and only then
\* began to wait for PrintComplete; it wrote PrintRequest after it had
\* received the status reply and the first chunk after it had received the
\* acknowledgement.
C1_PrintOrder ==
  \A i \in DonePrints :
    calls[i].res = "void" =>
      Prefix(PrintSequence, Kinds(calls[i].log, { "ctl", "reply", "data", "wait" }))

C1_Witness ==
  \E i \in DonePrints : calls[i].res = "void" /\ Has(calls[i].log, "complete", 0)

\* C2: when a print() that passed the connected check settles while no other
\* print() is in progress, isPrinting is false, whatever the exit path.
C2_PrintingCleared ==
  \A i \in DonePrints :
    (/\ calls[i].err # NotConnectedMessage
     /\ \A j \in Prints \ {i} : ~Running(calls[j])) => ~isPrinting

C2_Witness ==
  \E i \in DonePrints :
    /\ calls[i].err = PrintTimeoutMessage
    /\ \A j \in Prints \ {i} : ~Running(calls[j])
    /\ ~isPrinting

\* a decoded PrinterState with a fault flag set
Faulty(decoded) ==
  /\ decoded # None
  /\ \/ decoded[1].paper_jam \/ decoded[1].out_of_paper \/ decoded[1].cover_open
     \/ decoded[1].battery_low \/ decoded[1].overheat

\* the entries of a print job's log that are the reply to its precheck
Precheck(log) ==
  { n \in 1 .. Len(log) :
      /\ log[n].k = "reply" /\ log[n].cmd = GetStatus
      /\ \A m \in 1 .. n : log[m].k # "complete" }

\* C3: a print() whose precheck reply decodes to a state with a fault flag
\* set writes neither PrintRequest nor a data chunk, and fails.
C3_FaultStopsPrint ==
  \A i \in Prints : \A n \in Precheck(calls[i].log) :
    Faulty(parsePrinterState(calls[i].log[n].data)) =>
      /\ ~Has(calls[i].log, "ctl", PrintRequest)
      /\ ~Has(calls[i].log, "data", 0)
      /\ calls[i].pc = "done" /\ calls[i].res = "rejected"

\* C4: a print() that received an acknowledgement of PrintRequest whose
\* byte 0 is not zero, or that is empty, is rejected with "Print request
\* rejected" and has written no data chunk and no FlushData.
C4_RejectedAck ==
  \A i \in Prints : \A n \in 1 .. Len(calls[i].log) :
    LET e == calls[i].log[n]
    IN  (e.k = "reply" /\ e.cmd = PrintRequest /\ (e.data = << >> \/ e.data[1] # 0)) =>
          /\ calls[i].pc = "done" /\ calls[i].res = "rejected"
          /\ calls[i].err = RejectedMessage
          /\ ~Has(calls[i].log, "data", 0)
          /\ ~Has(calls[i].log, "ctl", FlushData)

C4_Witness ==
  \E i \in DonePrints : \E n \in 1 .. Len(calls[i].log) :
    /\ calls[i].log[n].k = "reply" /\ calls[i].log[n].cmd = PrintRequest
    /\ calls[i].log[n].data = << >>
    /\ calls[i].err = RejectedMessage

\* the protocol-sequence and timeout failures of print()
SequenceErrors ==
  { TimeoutMessage(GetStatus), TimeoutMessage(PrintRequest), RejectedMessage,
    PrintTimeoutMessage }

\* C5: a print() that failed by a status timeout, an acknowledgement
\* timeout, a rejected print request or a completion timeout has emitted an
\* error event with the error it is rejected with, and the event came before
\* the rejection; and a print() whose precheck or acknowledgement wait timed
\* out did fail.
C5_ErrorEventThenReject ==
  \A i \in Prints :
    LET log == calls[i].log
    IN  /\ (calls[i].pc = "done" /\ calls[i].res = "rejected" /\ calls[i].err \in SequenceErrors) =>
              /\ Len(log) >= 2
              /\ log[Len(log) - 1] = Entry("error", 0, << >>, calls[i].err)
              /\ log[Len(log)] = Entry("reject", 0, << >>, calls[i].err)
        /\ (\E n \in 1 .. Len(log) : log[n].k = "timeout" /\ ~Has(log, "complete", 0)) =>
              /\ calls[i].pc = "done" /\ calls[i].res = "rejected"
              /\ calls[i].err \in SequenceErrors

C5_Witness ==
  \E i \in DonePrints :
    /\ calls[i].err = TimeoutMessage(PrintRequest)
    /\ Has(calls[i].log, "error", 0)

\* a call in which a command timed out: a waiter's timer fired, or the
\* completion of the print job did not come
TimedOut(c) ==
  (\E n \in 1 .. Len(c.log) : c.log[n].k = "timeout") \/ c.err = PrintTimeoutMessage

\* call i, a getStatus() or a print(), settles in this step after a timeout
SettlesTimedOut(i) ==
  /\ calls[i].pc \notin { "idle", "done" }
  /\ calls'[i].pc = "done"
  /\ calls'[i].op \in { "getStatus", "print" }
  /\ TimedOut(calls'[i])

\* C6: the step in which a getStatus() or print() settles after a command
\* timeout leaves the connection as it was: isConnected, the connection, the
\* printer and the device are unchanged, the connection's disconnect is not
\* invoked and no disconnected event is emitted; when no other call ran
\* beside it, the client is still connected on an open connection.
C6_TimeoutKeepsConnection ==
  [][\A i \in Calls : SettlesTimedOut(i) =>
        /\ UNCHANGED << isConnected, connection, printer, device, conns >>
        /\ \A j \in Calls : calls'[j].pc # "release"
                             \/ (calls[j].pc = "release" /\ j # i)
        /\ \A j \in Calls : ~Has(calls'[j].log, "disconnected", 0)
                             \/ Has(calls[j].log, "disconnected", 0)
        /\ calls'[i].alone =>
              /\ isConnected' /\ connection' # 0
              /\ ~conns'[connection'].released]_vars

\* a print() succeeded on the connection on which a command had timed out
C6_Witness ==
  /\ last = "timeout" /\ nconn = 1 /\ isConnected
  /\ \E i \in DonePrints : calls[i].res = "void" /\ calls[i].alone

\* the last entry of the kinds in ks before position n of log, 0 for none
LastBefore(log, n, ks) ==
  LET at == { m \in 1 .. n - 1 : log[m].k \in ks }
  IN  IF at = { } THEN 0 ELSE CHOOSE m \in at : \A o \in at : o <= m

\* C7: in a call that ran with no other call beside it, a GetStatus
\* notification the device sent after the request was issued resolves
\* requestStatus() with its payload, so that none is left unused and a timeout
\* follows a request only when no notification came; getStatus() then
\* returns the flags decoded from the payload; a request that no notification
\* answers is rejected with the timeout error.
C7_RequestStatus ==
  \A i \in Calls : calls[i].alone =>
    LET log == calls[i].log
    IN  /\ ~Has(log, "ans", GetStatus)
        /\ \A n \in 1 .. Len(log) :
              (log[n].k = "timeout" /\ log[n].cmd = GetStatus) =>
                /\ LastBefore(log, n, { "ctl", "reply", "ans" }) # 0
                /\ log[LastBefore(log, n, { "ctl", "reply", "ans" })].k = "ctl"
                /\ n < Len(log) /\ log[n + 1].msg = TimeoutMessage(GetStatus)
        /\ (calls[i].op = "getStatus" /\ calls[i].pc = "done" /\ calls[i].res = "state") =>
              /\ LastBefore(log, Len(log), { "reply" }) # 0
              /\ printerState = parsePrinterState(log[LastBefore(log, Len(log), { "reply" })].data)

\* the device answered every command of the job that expects an answer, and
\* every answer let the job go on
Cooperative(log) ==
  /\ \A n \in 1 .. Len(log) :
        (log[n].k = "ctl" /\ Expect(log[n].cmd) # 0) =>
          \E m \in n + 1 .. Len(log) :
            log[m].k \in { "reply", "ans" } /\ log[m].cmd = Expect(log[n].cmd)
  /\ \A n \in 1 .. Len(log) :
        /\ log[n].k = "ans" => log[n].msg = "ok"
        /\ log[n].k = "reply" => Positive(log[n].cmd, log[n].data)

\* C8: when a print() settles that ran with no other call beside it, no
\* waiter is registered; and such a print() succeeds when its writes went
\* through and the device answered every command.
C8_SequentialPrints ==
  \A i \in DonePrints : calls[i].alone =>
    /\ \A p \in Conns : \A c \in WaitCmds : mgrs[p].pendingResolvers[c] = 0
    /\ (/\ Has(calls[i].log, "ctl", SetIntensity)
        /\ calls[i].err \notin { WriteError, NullError }
        /\ Cooperative(calls[i].log)) => calls[i].res = "void"

\* C9: at most one command that awaits a reply is outstanding: written and
\* neither answered nor timed out.
C9_OneOutstanding ==
  Cardinality({ i \in Calls : calls[i].out \in WaitCmds }) <= 1

\* the steps of a successful connect()
ConnectSequence ==
  << << "requestDevice", 0 >>, << "adapterConnect", 0 >>, << "startNotifications", 0 >>,
     << "setConnected", 0 >>, << "connected", 0 >>, << "ctl", GetStatus >> >>

\* C10: a connect() that succeeded went through requestDevice,
\* adapter.connect, the subscription, isConnected set, one connected event
\* and one GetStatus write, in this order.
C10_ConnectOrder ==
  \A i \in Calls :
    (calls[i].op = "connect" /\ calls[i].pc = "done" /\ calls[i].res = "void") =>
      Kinds(calls[i].log, { "requestDevice", "adapterConnect", "startNotifications",
                            "setConnected", "connected", "ctl" }) = ConnectSequence

\* the error of the operation connect() waits for at pc
ConnectError(pc) ==
  IF pc = "requestDevice" THEN "Failed to request Bluetooth device"
  ELSE IF pc = "adapterConnect" THEN "Failed to connect to device"
  ELSE "Failed to start notifications"

\* the step of connect() i in which the operation it waits for fails: the
\* call ends there, and not by a reference that was cleared meanwhile
ConnectFails(i) ==
  /\ calls[i].op = "connect"
  /\ calls[i].pc \in { "requestDevice", "adapterConnect", "startNotifications" }
  /\ calls'[i].pc = "done"
  /\ calls'[i].err # NullError

\* C11: when requestDevice, adapter.connect or the subscription fails,
\* connect() rejects with that error after an error event that carries it,
\* it has emitted no connected event and has not set isConnected, and the
\* failing step leaves isConnected as it was.
C11_ConnectFailure ==
  [][\A i \in Calls : ConnectFails(i) =>
        LET log == calls'[i].log
        IN  /\ calls'[i].pc = "done" /\ calls'[i].res = "rejected"
            /\ calls'[i].err = ConnectError(calls[i].pc)
            /\ Len(log) >= 2
            /\ log[Len(log) - 1] = Entry("error", 0, << >>, calls'[i].err)
            /\ log[Len(log)] = Entry("reject", 0, << >>, calls'[i].err)
            /\ ~Has(log, "connected", 0) /\ ~Has(log, "setConnected", 0)
            /\ isConnected' = isConnected]_vars

\* a connect() succeeded, alone, after a connect() had failed
C11_Witness ==
  /\ last = "connectFailed" /\ isConnected
  /\ \E i \in Calls :
       /\ calls[i].op = "connect" /\ calls[i].pc = "done" /\ calls[i].res = "void"
       /\ calls[i].alone /\ Has(calls[i].log, "connected", 0)

\* the first entry of kind k in log, 0 for none
First(log, k) ==
  LET at == { n \in 1 .. Len(log) : log[n].k = k }
  IN  IF at = { } THEN 0 ELSE CHOOSE n \in at : \A m \in at : n <= m

\* C12: reconnect() never rejects and never calls requestDevice; it resolves
\* to true or false, and to true only after it set isConnected and then
\* emitted the connected event.
C12_ReconnectResult ==
  \A i \in Calls : calls[i].op = "reconnect" =>
    LET log == calls[i].log
    IN  /\ ~Has(log, "requestDevice", 0)
        /\ calls[i].pc = "done" =>
              /\ calls[i].res \in { "true", "false" }
              /\ calls[i].res = "true" =>
                    /\ First(log, "setConnected") # 0
                    /\ First(log, "setConnected") < First(log, "connected")

Count(log, k) == Cardinality({ n \in 1 .. Len(log) : log[n].k = k })

\* C13: a disconnect() that settled has resolved, the printer, connection and
\* device references are cleared, isConnected and isPrinting are false and it
\* emitted one disconnected event; when no other call ran beside it and it
\* tried to stop the notifications, it also tried to release the connection,
\* whether or not the unsubscription threw.
C13_DisconnectCleanup ==
  \A i \in Calls : (calls[i].op = "disconnect" /\ calls[i].pc = "done") =>
    /\ calls[i].res = "void"
    /\ printer = 0 /\ connection = 0 /\ device = 0
    /\ ~isConnected /\ ~isPrinting
    /\ Count(calls[i].log, "disconnected") = 1
    /\ (calls[i].alone /\ Has(calls[i].log, "stopNotifications", 0)) =>
          Has(calls[i].log, "release", 0)

\* a disconnect() finished although both the unsubscription and the release
\* threw: the connection is still subscribed and not released
C13_Witness ==
  /\ nconn = 1 /\ conns[1].started /\ ~conns[1].released
  /\ \E i \in Calls :
       /\ calls[i].op = "disconnect" /\ calls[i].pc = "done" /\ calls[i].alone
       /\ Has(calls[i].log, "release", 0) /\ Has(calls[i].log, "disconnected", 0)

\* C14: when disconnect() has completed, every ClientState field has the
\* value it has on a freshly constructed client.
C14_DisconnectResetsState ==
  \A i \in Calls : (calls[i].op = "disconnect" /\ calls[i].pc = "done") =>
    /\ ~isConnected /\ ~isPrinting
    /\ printerState = None
    /\ ditherMethod = DefaultDither
    /\ printIntensity = DefaultIntensity
    /\ statusMessage = "Ready to connect printer"

\* print() is called in slot i while the client is not connected
PrintsUnconnected(i) ==
  /\ calls[i].pc = "idle" /\ calls'[i].pc # "idle"
  /\ calls'[i].op = "print"
  /\ ~isConnected

\* C15: a print() called while the client is not connected is rejected at
\* once with "Printer not connected"; it writes nothing, emits nothing and
\* leaves every ClientState field as it was.
C15_PrintNotConnected ==
  [][\A i \in Calls : PrintsUnconnected(i) =>
        /\ calls'[i].pc = "done" /\ calls'[i].res = "rejected"
        /\ calls'[i].err = NotConnectedMessage
        /\ calls'[i].log = << Entry("reject", 0, << >>, NotConnectedMessage) >>
        /\ UNCHANGED << isConnected, isPrinting, printerState, statusMessage,
                        ditherMethod, printIntensity >>]_vars

\* a print() was rejected after a disconnect()
C15_Witness ==
  /\ statusMessage = "Printer disconnected" /\ nconn = 1
  /\ \E i \in DonePrints : calls[i].err = NotConnectedMessage

\* C16: in every reachable state, isPrinting implies isConnected.
C16_PrintingImpliesConnected == isPrinting => isConnected

\* a print job is under way while a disconnect() waits for the release
C16_Witness ==
  /\ isPrinting /\ isConnected
  /\ \E i \in Prints : Running(calls[i])
  /\ \E j \in Calls : calls[j].op = "disconnect" /\ calls[j].pc = "release"

\* in this step the notify channel delivers a frame that fails the header
\* check, in place of the answer call k waits for
DeliversGarbled(k) ==
  /\ Len(calls'[k].log) > Len(calls[k].log)
  /\ calls'[k].log[Len(calls[k].log) + 1].k = "garbled"

\* C17: a delivered frame that fails the header check changes no ClientState
\* field, the status string and the last known PrinterState included, and
\* no event is emitted for it.
C17_GarbledFrameNotSurfaced ==
  [][\A k \in Calls : DeliversGarbled(k) =>
        /\ UNCHANGED << isConnected, isPrinting, printerState, statusMessage,
                        ditherMethod, printIntensity >>
        /\ Len(calls'[k].log) = Len(calls[k].log) + 1]_vars

\* the first two bytes of bytes are not the header, or are not there
BadHeader(bytes) ==
  Len(bytes) < 2 \/ bytes[1] # HEADER_BYTE_1 \/ bytes[2] # HEADER_BYTE_2

\* C18: for a byte sequence whose first two bytes are not 0x22, 0x21,
\* sequences shorter than two bytes included, parseNotification returns
\* nothing and notify leaves the tracker's PrinterState, its completion flag
\* and its waiter table as they were.
C18_BadHeaderIgnored ==
  (input # None /\ input[1].f = "notify" /\ BadHeader(input[1].bytes)) =>
    /\ parseNotification(input[1].bytes) = None
    /\ output # None =>
          /\ output[1].parsed = None
          /\ output[1].m.state = input[1].m.state
          /\ output[1].m.printComplete = input[1].m.printComplete
          /\ output[1].m.pendingResolvers = input[1].m.pendingResolvers

\* notify has run on a sequence with the first header byte only, on a
\* tracker with a waiter registered
C18_Witness ==
  /\ input # None /\ output # None
  /\ input[1].f = "notify" /\ input[1].m = BusyManager
  /\ input[1].bytes = << HEADER_BYTE_1, 0, GetStatus >>

\* C19: parseNotification of the frame makeCommand builds returns the
\* command id and the payload the frame was built from.
C19_RoundTrip ==
  (input # None /\ input[1].f = "makeCommand" /\ output # None) =>
    /\ parseNotification(output[1].bytes) # None
    /\ parseNotification(output[1].bytes)[1].cmdId = input[1].command
    /\ parseNotification(output[1].bytes)[1].payload = input[1].bytes
    /\ output[1].parsed \in { None, Some([cmdId |-> input[1].command, payload |-> input[1].bytes]) }

\* a frame with a payload of the largest length was built and parsed
C19_Witness ==
  /\ input # None /\ output # None
  /\ input[1].f = "makeCommand" /\ Len(input[1].bytes) = 65535
  /\ input[1].command = 255
  /\ output[1].parsed # None

\* C20: the frame makeCommand builds for a payload of L bytes has L + 8
\* bytes: 0x22, 0x21, the command id, 0, L mod 256, L div 256, the payload
\* unchanged, crc8 of the payload, 0xFF; the checksum byte is the one of the
\* frame built for the same payload and another command id.
C20_FrameLayout ==
  (input # None /\ input[1].f = "makeCommand" /\ output # None) =>
    LET frame == output[1].bytes
        payload == input[1].bytes
        L == Len(payload)
    IN  /\ Len(frame) = L + 8
        /\ frame[1] = 34 /\ frame[2] = 33
        /\ frame[3] = input[1].command /\ frame[4] = 0
        /\ frame[5] = L % 256 /\ frame[6] = L \div 256
        /\ frame[5] + 256 * frame[6] = L
        /\ SubSeq(frame, 7, L + 6) = payload
        /\ frame[L + 7] = crc8(payload)
        /\ frame[L + 8] = 255
        /\ makeCommand((input[1].command + 1) % 256, payload)[L + 7] = frame[L + 7]

\* a frame was built for a payload whose length needs the high length byte
C20_Witness ==
  /\ input # None /\ output # None
  /\ input[1].f = "makeCommand" /\ Len(input[1].bytes) = 257
  /\ input[1].command = GetStatus
  /\ output[1].bytes[6] = 1

\* C21: the PrinterState decoded from a status payload of at least 7 bytes
\* has printing, paper_jam, out_of_paper, cover_open, battery_low and
\* overheat equal to the bits 0x01, 0x02, 0x04, 0x08, 0x10 and 0x20 of
\* payload byte 6; the two high bits of that byte and the other bytes of the
\* payload change nothing.
C21_StatusBits ==
  (input # None /\ input[1].f = "parsePrinterState" /\ Len(input[1].bytes) >= 7
     /\ output # None) =>
    LET b == input[1].bytes[7]
        decoded == output[1].parsed
    IN  /\ decoded # None
        /\ decoded[1].printing     = (b % 2 = 1)
        /\ decoded[1].paper_jam    = ((b \div 2) % 2 = 1)
        /\ decoded[1].out_of_paper = ((b \div 4) % 2 = 1)
        /\ decoded[1].cover_open   = ((b \div 8) % 2 = 1)
        /\ decoded[1].battery_low  = ((b \div 16) % 2 = 1)
        /\ decoded[1].overheat     = ((b \div 32) % 2 = 1)
        /\ decoded = parsePrinterState(<< 0, 0, 0, 0, 0, 0, b % 64 >>)

\* a payload of 14 bytes, all set but byte 6, which has the two high bits and
\* the paper jam and battery bits set, was decoded
C21_Witness ==
  /\ input # None /\ output # None
  /\ input[1].f = "parsePrinterState"
  /\ input[1].bytes = [k \in 1 .. 14 |-> IF k = 7 THEN 210 ELSE TERMINATOR]
  /\ output[1].parsed = Some([createDefaultState EXCEPT !.paper_jam = TRUE, !.battery_low = TRUE])

\* the writes of sendDataChunks so far are the chunks of the buffer in order,
\* all on the data channel, each of chunkSize bytes but a shorter last one;
\* when the method has returned there are ceil(n / chunkSize) of them and
\* they add up to the buffer
ChunksInOrder ==
  (input # None /\ input[1].f = "sendDataChunks" /\ output # None) =>
    LET data == input[1].data
        n == Len(data)
        c == input[1].chunkSize
        w == output[1].writes
        total == (n + c - 1) \div c
    IN  /\ Len(w) <= total
        /\ \A k \in 1 .. Len(w) :
              /\ w[k].channel = "data"
              /\ w[k].bytes = [x \in 1 .. (IF k * c <= n THEN c ELSE n % c) |-> data[(k - 1) * c + x]]
        /\ output[1].pc = "returned" =>
              /\ Len(w) = total
              /\ \A x \in 1 .. n : w[((x - 1) \div c) + 1].bytes[((x - 1) % c) + 1] = data[x]

\* C22: sendDataChunks terminates; it writes the chunks of the buffer in
\* buffer order on the data channel only, chunkSize bytes each and n mod
\* chunkSize bytes in a last write when chunkSize does not divide n, and it
\* returns after exactly ceil(n / chunkSize) writes, which add up to the
\* buffer; an empty buffer gives no write.
C22_ChunkedWrites ==
  /\ []ChunksInOrder
  /\ <>(output # None /\ output[1].pc \in { "returned", "threw" })

\* a buffer of 100 bytes was sent in writes of 48, 48 and 4 bytes
C22_Witness ==
  /\ input # None /\ output # None
  /\ input[1].f = "sendDataChunks"
  /\ Len(input[1].data) = 100 /\ input[1].chunkSize = 48
  /\ output[1].pc = "returned"
  /\ [k \in 1 .. Len(output[1].writes) |-> Len(output[1].writes[k].bytes)] = << 48, 48, 4 >>

\* C23: every element of the buffer a ditherer returns is 0 or 255, for each
\* of the five methods and every width and height.
C23_DitherOutputBinary ==
  (input # None /\ input[1].f = "dither" /\ output # None) =>
    \A k \in 1 .. Len(output[1].data) : output[1].data[k] \in { 0, 255 }

\* PrintJob.prepare has run on the input
Prepared == input # None /\ input[1].f = "prepare" /\ output # None

\* C24: whatever the width and height of the image and the flip and rotate
\* options, every row PrintJob.prepare hands to the 1-bit packing has exactly
\* 384 pixels, the packing does not throw, and the buffer consists of whole
\* rows of 48 bytes.
C24_RowsFitPrintHead ==
  Prepared =>
    /\ \A y \in 1 .. Len(output[1].binaryRows) : Len(output[1].binaryRows[y]) = 384
    /\ output[1].imageBuffer # None
    /\ Len(output[1].imageBuffer[1]) % 48 = 0

\* the byte that stands for the pixels 8k .. 8k + 7 of a row, k from 0
GroupByte(row, k) ==
  LET Weight(b) == IF row[8 * k + b + 1] THEN 2 ^ b ELSE 0
  IN  Weight(0) + Weight(1) + Weight(2) + Weight(3) + Weight(4) + Weight(5) + Weight(6) + Weight(7)

\* prepareImageDataBuffer has run on rows of 384 pixels
Packed ==
  /\ input # None /\ input[1].f = "pack" /\ output # None
  /\ \A y \in 1 .. Len(input[1].rows) : Len(input[1].rows[y]) = 384

\* C25: for H rows of 384 pixels prepareImageDataBuffer returns a buffer of
\* max(H * 48, 4320) bytes: the H * 48 bytes of the rows in order, then
\* bytes 0x00 only, and none of them when H * 48 >= 4320.
C25_PackedLength ==
  Packed =>
    LET H == Len(input[1].rows)
        buffer == output[1].imageBuffer
    IN  /\ buffer # None
        /\ Len(buffer[1]) = (IF H * 48 > 4320 THEN H * 48 ELSE 4320)
        /\ H * 48 >= 4320 => Len(buffer[1]) = H * 48
        /\ \A n \in 1 .. Len(buffer[1]) :
              buffer[1][n] = IF n <= H * 48
                             THEN GroupByte(input[1].rows[((n - 1) \div 48) + 1], (n - 1) % 48)
                             ELSE 0

\* 89 rows with every third pixel black were packed and padded by one row
C25_Witness ==
  /\ Packed /\ Len(input[1].rows) = 89
  /\ input[1].rows[1][2] /\ ~input[1].rows[1][1]
  /\ Len(output[1].imageBuffer[1]) = 4320
  /\ output[1].imageBuffer[1][1] = 146
  /\ output[1].imageBuffer[1][4320] = 0

\* the rows that were packed and the buffer that came of it, when rows of 384
\* pixels were packed by prepareImageDataBuffer, called on its own or by
\* PrintJob.prepare
PackedRows ==
  IF Packed THEN Some([rows |-> input[1].rows, buffer |-> output[1].imageBuffer[1]])
  ELSE IF Prepared /\ output[1].imageBuffer # None
       THEN Some([rows |-> output[1].binaryRows, buffer |-> output[1].imageBuffer[1]])
       ELSE None

\* the job is an opaque all-black image of 10 lines of 384 pixels, no option given
BlackJob ==
  /\ Prepared /\ input[1].options = NoOptions /\ input[1].defaultDither = "steinberg"
  /\ input[1].image.width = 384 /\ input[1].image.height = 10
  /\ \A n \in 1 .. Len(input[1].image.data) :
        input[1].image.data[n] = IF n % 4 = 0 THEN 255 ELSE 0

\* C26: rows are packed least significant bit first: bit b of byte k of a row
\* is 1 exactly when the pixel 8k + b of the row is black; an all-black image
\* of 10 lines of 384 pixels prepared with the default options gives 4320
\* bytes, 480 of 0xFF and then 3840 of 0x00.
C26_LsbFirst ==
  /\ PackedRows # None =>
        LET rows == PackedRows[1].rows
            buffer == PackedRows[1].buffer
        IN  \A y \in 1 .. Len(rows) : \A k \in 0 .. 47 :
              LET byte == buffer[(y - 1) * 48 + k + 1]
                  row == rows[y]
              IN  \A b \in 0 .. 7 : ((byte \div (2 ^ b)) % 2 = 1) <=> row[8 * k + b + 1]
  /\ BlackJob =>
        /\ output[1].numLines = 10
        /\ output[1].imageBuffer = Some([n \in 1 .. 4320 |-> IF n <= 480 THEN 255 ELSE 0])

\* the all-black image was prepared
C26_Witness == BlackJob /\ output[1].imageBuffer # None /\ output[1].imageBuffer[1][480] = 255

\* rotate has been applied by these angles, one after the other
Rotated(angles) ==
  input # None /\ input[1].f = "rotate" /\ output # None /\ output[1].angles = angles

\* the pixel (x, y) of an image of this width, both counted from 0
PixelAt(data, width, x, y) == data[y * width + x + 1]

\* C27: a rotation by 90 or 270 gives an image of width H and height W and a
\* rotation by 180 one of width W and height H, with the pixels where a
\* clockwise rotation puts them; two rotations by 90, the second with the
\* swapped dimensions, give what one rotation by 180 gives; two rotations by
\* 180 give the image back.
C27_RotationsCompose ==
  (input # None /\ input[1].f = "rotate" /\ output # None) =>
    LET source == input[1].image
        W == source.width
        H == source.height
        result == output[1]
        Same(x, y, toX, toY) ==
          PixelAt(result.data, result.width, toX, toY) = PixelAt(source.data, W, x, y)
        Each(P(_, _)) == \A x \in 0 .. W - 1 : \A y \in 0 .. H - 1 : P(x, y)
        Quarter(x, y) == Same(x, y, H - 1 - y, x)
        Half(x, y) == Same(x, y, W - 1 - x, H - 1 - y)
        ThreeQuarters(x, y) == Same(x, y, y, W - 1 - x)
    IN  /\ Len(result.data) = W * H
        /\ Rotated(<< 90 >>) => result.width = H /\ result.height = W /\ Each(Quarter)
        /\ Rotated(<< 270 >>) => result.width = H /\ result.height = W /\ Each(ThreeQuarters)
        /\ Rotated(<< 180 >>) => result.width = W /\ result.height = H /\ Each(Half)
        /\ Rotated(<< 90, 90 >>) =>
              /\ result.width = W /\ result.height = H
              /\ result.data = rotate(source.data, W, H, 180)
              /\ Each(Half)
        /\ Rotated(<< 180, 180 >>) => result.data = source.data

\* an image of 2 by 3 pixels was rotated by 90 twice
C27_Witness ==
  /\ Rotated(<< 90, 90 >>)
  /\ input[1].image.width = 2 /\ input[1].image.height = 3
  /\ output[1].data = << 6, 5, 4, 3, 2, 1 >>

\* C28: PrintJob.prepare of an image wider than 384 pixels keeps the top-left
\* region of 384 columns and all the lines, every pixel of it with the four
\* bytes the source has at the same column and line; an image of at most 384
\* columns is processed as it was given.
C28_CropsNotScales ==
  Prepared =>
    LET source == input[1].image
        processed == output[1].processedImage
    IN  /\ source.width > 384 =>
              /\ processed.width = 384
              /\ processed.height = source.height
              /\ Len(processed.data) = 384 * source.height * 4
              /\ \A y \in 0 .. source.height - 1 : \A x \in 0 .. 383 : \A ch \in 1 .. 4 :
                    processed.data[(y * 384 + x) * 4 + ch] = source.data[(y * source.width + x) * 4 + ch]
        /\ source.width <= 384 => processed = source

\* an image of 386 columns and 2 lines was prepared, and its second line
\* starts where the second line of the source starts
C28_Witness ==
  /\ Prepared
  /\ input[1].image.width = 386 /\ input[1].image.height = 2
  /\ output[1].processedImage.width = 384
  /\ output[1].processedImage.data[384 * 4 + 1] = input[1].image.data[386 * 4 + 1]

\* the promise of waitForNotification of call i is pending
Waiting(i) == calls[i].pc \in WaitPcs

\* the id a call at this position waits for
WaitedCmd(pc) == IF pc = "ackWait" THEN PrintRequest ELSE GetStatus

\* the table of some manager holds the resolver of call i, before and after a step
Registered(i) == \E p \in Conns, cmd \in WaitCmds : mgrs[p].pendingResolvers[cmd] = i
RegisteredNext(i) == \E p \in Conns, cmd \in WaitCmds : mgrs'[p].pendingResolvers[cmd] = i

\* how often a waiter of the call was resolved or rejected by its timer
RECURSIVE Settlements(_)
Settlements(log) ==
  IF log = << >> THEN 0
  ELSE (IF Head(log).k \in { "reply", "timeout" } THEN 1 ELSE 0) + Settlements(Tail(log))

\* this step settles a waiter of call i
Settles(i) == Settlements(calls'[i].log) > Settlements(calls[i].log)

\* a resolver in a table is the one of a pending waiter for that id on that manager
TableHoldsPending ==
  \A p \in Conns, cmd \in WaitCmds :
    LET i == mgrs[p].pendingResolvers[cmd]
    IN  i # 0 => Waiting(i) /\ WaitedCmd(calls[i].pc) = cmd /\ calls[i].pr = p

\* what a step does to the waiter of call i
SettledOnce(i) ==
  /\ Settles(i) =>
        /\ Waiting(i)
        /\ Settlements(calls'[i].log) = Settlements(calls[i].log) + 1
        /\ ~(calls'[i].pc \in WaitPcs)
        /\ ~RegisteredNext(i)
  /\ (Waiting(i) /\ ~Settles(i)) => calls'[i].pc = calls[i].pc /\ calls'[i].pr = calls[i].pr
  /\ (RegisteredNext(i) /\ ~Registered(i)) => ~Waiting(i) /\ calls'[i].pc \in WaitPcs
  /\ (~Waiting(i) /\ calls'[i].pc \in WaitPcs) => Settlements(calls'[i].log) = Settlements(calls[i].log)

\* C29: a waiter is settled only while it is pending and then once, by the
\* notification or by its timer; the step that settles it leaves no resolver
\* of it in any table, so that no later notification and no timer settles it
\* again; a table never holds the resolver of a waiter that is not pending.
C29_SettledOnce ==
  /\ []TableHoldsPending
  /\ [][\A i \in Calls : SettledOnce(i)]_vars

\* the first waiter of a print() was resolved and is in no table, while
\* another call waits for the same id
C29_Witness ==
  \E i, j \in Calls :
    /\ i # j
    /\ calls[i].op = "print" /\ calls[i].pc = "reqWrite"
    /\ Settlements(calls[i].log) = 1
    /\ ~Registered(i)
    /\ calls[j].pc = "statusWait" /\ calls[j].pr = calls[i].pr
    /\ mgrs[calls[j].pr].pendingResolvers[GetStatus] = j

\* calls i and j both wait for cmd on the manager p and the table holds the
\* resolver of j: j called waitForNotification while the waiter of i was pending
SecondWaiter(i, j, p, cmd) ==
  /\ i # j
  /\ Waiting(i) /\ WaitedCmd(calls[i].pc) = cmd /\ calls[i].pr = p
  /\ Waiting(j) /\ WaitedCmd(calls[j].pc) = cmd /\ calls[j].pr = p
  /\ mgrs[p].pendingResolvers[cmd] = j

\* the last entry the step added to the log of call i is of this kind
SettlesBy(i, kind) ==
  /\ Settles(i)
  /\ \E n \in 1 .. Len(calls'[i].log) :
        /\ calls'[i].log[n].k = kind
        /\ \A m \in n + 1 .. Len(calls'[i].log) : calls'[i].log[m].k \notin { "reply", "timeout" }
        /\ n > Len(calls[i].log) \/ Settlements(SubSeq(calls'[i].log, 1, n)) > Settlements(calls[i].log)

\* what a step does when j waits for the id a pending waiter of i waits for
SecondReplacesFirst(i, j, p, cmd) ==
  /\ (Waiting(i) /\ WaitedCmd(calls[i].pc) = cmd /\ calls[i].pr = p
        /\ ~Waiting(j) /\ calls'[j].pc \in WaitPcs /\ WaitedCmd(calls'[j].pc) = cmd
        /\ calls'[j].pr = p)
       => mgrs'[p].pendingResolvers[cmd] = j
  /\ SecondWaiter(i, j, p, cmd) =>
        /\ mgrs'[p].pendingResolvers[cmd] = j \/ Settles(j)
        /\ SettlesBy(j, "reply") => ~Settles(i)
        /\ Settles(i) => SettlesBy(i, "timeout")

\* C30: a call of waitForNotification for an id that has a pending waiter
\* leaves the second resolver alone in the table; it stays there until the
\* second waiter is settled, so that the next notification for the id
\* resolves the second caller and not the first, and the first caller is
\* settled by its own timeout only.
C30_SecondWaiterResolved ==
  [][\A i, j \in Calls, p \in Conns, cmd \in WaitCmds : SecondReplacesFirst(i, j, p, cmd)]_vars

\* a GetStatus notification with a payload of 3 bytes
ShortStatus == DeviceFrame(GetStatus, StatusShort)

\* what the delivery of the short status notification does
ShortStatusDelivered ==
  LET j == IF printer = 0 THEN 0 ELSE mgrs[printer].pendingResolvers[GetStatus]
  IN  /\ printer' = printer
      /\ printer # 0 => mgrs'[printer].state = mgrs[printer].state
      /\ j # 0 =>
            /\ Len(calls'[j].log) > Len(calls[j].log)
            /\ calls'[j].log[Len(calls[j].log) + 1] = Entry("reply", GetStatus, StatusShort, "")
            /\ mgrs'[printer].pendingResolvers[GetStatus] = 0
      /\ \A i \in Calls :
            /\ Count(calls'[i].log, "error") = Count(calls[i].log, "error")
            /\ calls'[i].res # "rejected"

\* C31: the delivery of a GetStatus notification whose payload is shorter
\* than 7 bytes leaves the state the tracker stores as it was, raises no
\* error (no error event, no call rejected), and resolves the waiter
\* registered for GetStatus with the short payload.
C31_ShortStatusNotApplied ==
  [][\A k \in Calls : Deliver(k, ShortStatus) => ShortStatusDelivered]_vars

\* a getStatus() was resolved with the short payload while the tracker
\* still knows the fault an earlier status reported
C31_Witness ==
  \E i \in Calls :
    /\ calls[i].op = "getStatus" /\ calls[i].pc = "done" /\ calls[i].res = "state"
    /\ \E n \in 1 .. Len(calls[i].log) :
          calls[i].log[n] = Entry("reply", GetStatus, StatusShort, "")
    /\ printer # 0 /\ mgrs[printer].state.out_of_paper

\* what waitForPrintComplete has come to
WaitEnded == output # None /\ output[1].pc \in { "returned", "threw" }

WaitOutcome ==
  (input # None /\ input[1].f = "waitForPrintComplete" /\ output # None) =>
    LET o == output[1]
    IN  /\ o.pc = "pollDelay" => (o.m.printComplete <=> o.notified)
        /\ o.pc = "returned" => o.notified
        /\ o.pc = "threw" =>
              /\ ~o.notified
              /\ o.err = PrintTimeoutMessage
              /\ o.now - o.startTime >= input[1].timeoutMs

\* C32: waitForPrintComplete terminates; it returns only when a PrintComplete
\* notification was processed after it cleared the flag, and throws the print
\* timeout error only when none was and the timeout has elapsed; the flag an
\* earlier job left set does not count.
C32_WaitForPrintComplete == []WaitOutcome /\ <>WaitEnded

\* the flag was set when the call was made, no notification came, and the
\* call failed after the 20 s
C32_Witness ==
  /\ WaitEnded
  /\ input[1].m.printComplete /\ input[1].timeoutMs = DefaultTimeoutMs
  /\ output[1].pc = "threw" /\ ~output[1].notified
  /\ output[1].now >= DefaultTimeoutMs

\* the data writes made so far, before and after a step
WritesMade == IF output = None THEN 0 ELSE Len(output[1].writes)
WritesMadeNext == IF output' = None THEN 0 ELSE Len(output'[1].writes)

\* where sendDataChunks stands; "start" before the call
ChunkPc == IF output = None THEN "start" ELSE output[1].pc
ChunkPcNext == IF output' = None THEN "start" ELSE output'[1].pc

\* what a step of sendDataChunks does to the data channel
ChunkStepPaced ==
  /\ WritesMadeNext > WritesMade =>
        /\ WritesMadeNext = WritesMade + 1
        /\ ChunkPcNext = "dataWrite"
        /\ IF WritesMade = 0 THEN ChunkPc = "start" ELSE ChunkPc = "dataDelay"
  /\ ChunkPc = "dataWrite" => WritesMadeNext = WritesMade /\ ChunkPcNext \in { "dataDelay", "threw" }
  /\ (ChunkPcNext = "dataDelay" /\ ChunkPc # "dataDelay") => ChunkPc = "dataWrite"

\* C33: a chunk is handed to the data channel only at the start or after the
\* delay that follows the completed write of the chunk before it; while a
\* write is in flight no other is made, and a completed write is followed by
\* the delay before anything else.
C33_ChunksPaced ==
  [][(input # None /\ input[1].f = "sendDataChunks") => ChunkStepPaced]_vars

\* the second chunk of a buffer of 100 bytes is in flight
C33_Witness ==
  /\ input # None /\ output # None
  /\ input[1].f = "sendDataChunks"
  /\ Len(input[1].data) = 100 /\ input[1].chunkSize = 48
  /\ output[1].pc = "dataWrite" /\ output[1].pos = 48 /\ Len(output[1].writes) = 2

\* C34: in a call that ran with no other call beside it, every reply the
\* device sent after a GetStatus or PrintRequest frame was handed to the
\* control write resolves the waiter of that command, whether it came before
\* or after the write's promise resolved: no reply is left unused, and the
\* command times out only when no reply came after the write.
C34_NoReplyLost ==
  \A i \in Calls : calls[i].alone =>
    LET log == calls[i].log
    IN  \A n \in 1 .. Len(log) :
          (log[n].k = "ctl" /\ log[n].cmd \in WaitCmds) =>
            \A m \in n + 1 .. Len(log) :
              /\ ~(log[m].k = "ans" /\ log[m].cmd = log[n].cmd)
              /\ (log[m].k = "timeout" /\ log[m].cmd = log[n].cmd
                    /\ LastBefore(log, m, { "ctl" }) = n) =>
                    \A o \in n + 1 .. m - 1 :
                      ~(log[o].k \in { "ans", "reply" } /\ log[o].cmd = log[n].cmd)

\* the device reported the end of the job after FlushData was written
CompletionSent(log) ==
  \E n \in 1 .. Len(log) : \E m \in n + 1 .. Len(log) :
    /\ log[n].k = "ctl" /\ log[n].cmd = FlushData
    /\ log[m].k = "ans" /\ log[m].cmd = PrintComplete

\* C35: a print() that ran with no other call beside it and whose
\* PrintComplete notification was delivered at some moment after the
\* FlushData command was written, be it before waitForPrintComplete started,
\* does not fail with the print timeout: unless a write fails, it resolves.
C35_CompletionNotLost ==
  \A i \in Prints : (calls[i].alone /\ CompletionSent(calls[i].log)) =>
    /\ calls[i].err # PrintTimeoutMessage
    /\ (calls[i].pc = "done" /\ calls[i].err # WriteError) => calls[i].res = "void"

\* the timer of the waiter of call i fires and leaves the other waiters alone
TimeoutRemovesOwn(i) ==
  SettlesBy(i, "timeout") =>
    /\ ~RegisteredNext(i)
    /\ \A j \in Calls \ { i } :
          /\ ~Settles(j)
          /\ calls'[j].pc = calls[j].pc
          /\ \A p \in Conns, cmd \in WaitCmds :
                mgrs[p].pendingResolvers[cmd] = j => mgrs'[p].pendingResolvers[cmd] = j

\* C36: the step in which the timeout of a waiter fires rejects that waiter
\* and no other, and removes no registration but its own: a waiter that was
\* registered later for the same id is still in the table after it, for the
\* next notification to resolve.
C36_TimeoutRemovesOwn == [][\A i \in Calls : TimeoutRemovesOwn(i)]_vars

\* call i hands a frame or a chunk to a characteristic in this step
IssuesWrite(i) ==
  /\ calls'[i].pc \in WritePcs
  /\ calls[i].pc # calls'[i].pc \/ calls[i].op # calls'[i].op

\* C37: no call hands a frame or a chunk to a characteristic of a connection
\* that a completed disconnect() has released, a print() that was in
\* progress when disconnect() was called included.
C37_NoWriteAfterDisconnect ==
  [][\A i \in Calls : IssuesWrite(i) => ~conns[calls'[i].pr].released]_vars

\* C38: while a print() that has started its sequence has not settled,
\* isPrinting is true, whatever other print() settles and whatever
\* disconnect() does in the meantime.
C38_PrintingTracksJob ==
  \A i \in Prints : Running(calls[i]) => isPrinting

\* C39: a print() that resolved has emitted no error event, neither in its
\* sequence nor in the getStatus() it ends with.
C39_ResolvedPrintNoError ==
  \A i \in DonePrints : calls[i].res = "void" => Count(calls[i].log, "error") = 0

\* emit has just run on the emitter
Emitted == input # None /\ input[1].f = "emit" /\ output[1].last.op = "emit"

\* C40: emit calls every listener subscribed for the type of the event, in
\* the order of subscription, whichever of them throw, and nothing reaches
\* its caller; each exception is logged.
C40_EmitIsolatesListeners ==
  Emitted =>
    LET result == output[1].last
        ls == output[1].listeners[result.type]
    IN  /\ ~result.threw
        /\ result.invoked = ls
        /\ \A l \in Listeners :
              Cardinality({ k \in 1 .. Len(result.invoked) : result.invoked[k] = l })
                = (IF \E k \in 1 .. Len(ls) : ls[k] = l THEN 1 ELSE 0)
        /\ result.logged = Cardinality({ l \in input[1].throwing : \E k \in 1 .. Len(ls) : ls[k] = l })

\* the first of three listeners throws and the two after it were called
C40_Witness ==
  /\ Emitted
  /\ Len(output[1].last.invoked) = 3
  /\ output[1].last.invoked[1] \in input[1].throwing
  /\ output[1].last.invoked[3] \notin input[1].throwing
  /\ output[1].last.logged = 1

====
